---- MODULE Spec2Model ----
(***************************************************************************)
(* The Ruby runtime fingerprinter of the Cloud SDK                         *)
(* (googlecloudsdk/api_lib/app/runtimes/ruby.py).                          *)
(*                                                                         *)
(* A Python str is a sequence of one-character strings, so that strip(),   *)
(* the regular expressions and the sort of the source are computed and     *)
(* not assumed.  Python's None is the value None below.                    *)
(***************************************************************************)
EXTENDS Integers, Sequences, FiniteSets, TLC

\* ---------------------------------------------------------------- strings

\* Python's None: a one-element sequence that is no str (a str holds
\* one-character elements only).
None == <<"<None>">>

\* bool(x) of a str or None: None and '' are false.
Truthy(x) == x # None /\ x # <<>>

\* The characters str.strip() and the regex class \s take for whitespace
\* (ASCII, without the vertical tab, which TLA+ cannot write).
Whitespace == {" ", "\t", "\n", "\r", "\f"}

IsSpace(c) == c \in Whitespace

Digits == {"0", "1", "2", "3", "4", "5", "6", "7", "8", "9"}

IsDigit(c) == c \in Digits

\* The characters of the model in ASCII order: the order of Python's
\* comparison of str, which list.sort() uses.
Ascii ==
    <<"\t", "\n", "\f", "\r", " ", "#", "(", ")", "*", "-", ".", "/",
      "0", "1", "2", "3", "4", "5", "6", "7", "8", "9", ":",
      "E", "G", "N", "O", "R", "U", "X", "_",
      "a", "b", "c", "d", "e", "f", "g", "h", "i", "j", "k", "l", "m",
      "n", "o", "p", "q", "r", "s", "t", "u", "v", "w", "x", "y", "z">>

Code(c) == CHOOSE i \in 1..Len(Ascii) : Ascii[i] = c

\* a < b for two str: lexicographic on the character codes.
StrLess(a, b) ==
    \E i \in 1..(Len(b)) :
        /\ \A j \in 1..(i - 1) : j <= Len(a) /\ a[j] = b[j]
        /\ \/ i = Len(a) + 1
           \/ i <= Len(a) /\ Code(a[i]) < Code(b[i])

MinOf(S) == CHOOSE x \in S : \A y \in S : x <= y

MaxOf(S) == CHOOSE x \in S : \A y \in S : x >= y

\* str.strip(): without the leading and trailing whitespace.
Strip(s) ==
    LET keep == {i \in 1..Len(s) : ~IsSpace(s[i])}
    IN  IF keep = {} THEN <<>> ELSE SubSeq(s, MinOf(keep), MaxOf(keep))

\* s.startswith(p)
StartsWith(s, p) == Len(s) >= Len(p) /\ SubSeq(s, 1, Len(p)) = p

\* The number of characters from position i on that satisfy the class:
\* what a greedy \d+, \s+ or \S+ consumes from i.
RunOfDigits(s, i) ==
    LET stop == {j \in i..Len(s) : ~IsDigit(s[j])}
    IN  (IF stop = {} THEN Len(s) + 1 ELSE MinOf(stop)) - i

RunOfSpace(s, i) ==
    LET stop == {j \in i..Len(s) : ~IsSpace(s[j])}
    IN  (IF stop = {} THEN Len(s) + 1 ELSE MinOf(stop)) - i

RunOfNonSpace(s, i) ==
    LET stop == {j \in i..Len(s) : IsSpace(s[j])}
    IN  (IF stop = {} THEN Len(s) + 1 ELSE MinOf(stop)) - i

RECURSIVE Join(_, _)
\* sep.join(list)
Join(sep, list) ==
    IF list = <<>> THEN <<>>
    ELSE IF Len(list) = 1 THEN list[1]
    ELSE list[1] \o sep \o Join(sep, Tail(list))

Range(f) == {f[i] : i \in DOMAIN f}

\* ---------------------------------------------------- program constants

PREFERRED_RUBY_VERSION == <<"2", ".", "3", ".", "0">>

RUBY_VERSION_MAP ==
    (<<"1", ".", "8", ".", "6">> :> <<"1", ".", "8", ".", "6", "-", "p", "4", "2", "0">>) @@
    (<<"1", ".", "8", ".", "7">> :> <<"1", ".", "8", ".", "7", "-", "p", "3", "7", "5">>) @@
    (<<"1", ".", "9", ".", "1">> :> <<"1", ".", "9", ".", "1", "-", "p", "4", "3", "0">>) @@
    (<<"1", ".", "9", ".", "2">> :> <<"1", ".", "9", ".", "2", "-", "p", "3", "3", "0">>) @@
    (<<"1", ".", "9", ".", "3">> :> <<"1", ".", "9", ".", "3", "-", "p", "5", "5", "1">>) @@
    (<<"2", ".", "0", ".", "0">> :> <<"2", ".", "0", ".", "0", "-", "p", "6", "4", "8">>)

GemRgeo == <<"r", "g", "e", "o">>

GemPuma == <<"p", "u", "m", "a">>

GemUnicorn == <<"u", "n", "i", "c", "o", "r", "n">>

GemRails == <<"r", "a", "i", "l", "s">>

PkgLibgeosDev == <<"l", "i", "b", "g", "e", "o", "s", "-", "d", "e", "v">>

PkgLibprojDev == <<"l", "i", "b", "p", "r", "o", "j", "-", "d", "e", "v">>

GEM_PACKAGES == (GemRgeo :> <<PkgLibgeosDev, PkgLibprojDev>>)

\* 'foreman start web -p 8080'
ENTRYPOINT_FOREMAN ==
    <<"f", "o", "r", "e", "m", "a", "n", " ", "s", "t", "a", "r", "t", " ",
      "w", "e", "b", " ", "-", "p", " ", "8", "0", "8", "0">>

\* 'bundle exec puma -p 8080 -e deployment'
ENTRYPOINT_PUMA ==
    <<"b", "u", "n", "d", "l", "e", " ", "e", "x", "e", "c", " ",
      "p", "u", "m", "a", " ", "-", "p", " ", "8", "0", "8", "0", " ",
      "-", "e", " ", "d", "e", "p", "l", "o", "y", "m", "e", "n", "t">>

\* 'bundle exec unicorn -p 8080 -E deployment'
ENTRYPOINT_UNICORN ==
    <<"b", "u", "n", "d", "l", "e", " ", "e", "x", "e", "c", " ",
      "u", "n", "i", "c", "o", "r", "n", " ", "-", "p", " ", "8", "0", "8", "0", " ",
      "-", "E", " ", "d", "e", "p", "l", "o", "y", "m", "e", "n", "t">>

\* 'bundle exec rackup -p 8080 -E deployment config.ru'
ENTRYPOINT_RACKUP ==
    <<"b", "u", "n", "d", "l", "e", " ", "e", "x", "e", "c", " ",
      "r", "a", "c", "k", "u", "p", " ", "-", "p", " ", "8", "0", "8", "0", " ",
      "-", "E", " ", "d", "e", "p", "l", "o", "y", "m", "e", "n", "t", " ",
      "c", "o", "n", "f", "i", "g", ".", "r", "u">>

\* ------------------------------------------------------ pure functions

RubyPrefix == <<"r", "u", "b", "y", " ">>

NoPrefix == <<"N", "o", " ">>

\* re.match('^No ', ruby_info)
MatchesNo(ruby_info) == StartsWith(ruby_info, NoPrefix)

\* MatchRubyVersion with the optional third number of the pattern left out.
MatchRubyVersionTwoPart(ruby_info) ==
    IF ~StartsWith(ruby_info, RubyPrefix) THEN None
    ELSE
        LET s    == ruby_info
            a    == Len(RubyPrefix) + 1
            n1   == RunOfDigits(s, a)
            dot1 == a + n1
            n2   == IF dot1 <= Len(s) THEN RunOfDigits(s, dot1 + 1) ELSE 0
        IN  IF n1 = 0 \/ dot1 > Len(s) \/ s[dot1] # "." \/ n2 = 0 THEN None
            ELSE SubSeq(s, a, dot1 + n2)

\* re.match(r'^ruby (\d+\.\d+(\.\d+)?)', ruby_info).group(1), or None when
\* there is no match.  Each \d+ is greedy and is followed by a character no
\* digit matches, so backtracking never finds another match.
MatchRubyVersion(ruby_info) ==
    IF ~StartsWith(ruby_info, RubyPrefix) THEN None
    ELSE
        LET s    == ruby_info
            a    == Len(RubyPrefix) + 1
            n1   == RunOfDigits(s, a)
            dot1 == a + n1
            n2   == IF dot1 <= Len(s) THEN RunOfDigits(s, dot1 + 1) ELSE 0
            end2 == dot1 + n2
            dot2 == end2 + 1
            n3   == IF dot2 <= Len(s) /\ s[dot2] = "."
                    THEN RunOfDigits(s, dot2 + 1) ELSE 0
        IN  IF n1 = 0 \/ dot1 > Len(s) \/ s[dot1] # "." \/ n2 = 0 THEN None
            ELSE IF n3 > 0 THEN SubSeq(s, a, dot2 + n3)
            ELSE SubSeq(s, a, end2)

\* NormalizeVersion with the lookup in RUBY_VERSION_MAP left out.
NormalizeVersionSkipped(ruby_version) == ruby_version

\* RUBY_VERSION_MAP.get(ruby_version, ruby_version)
NormalizeVersion(ruby_version) ==
    IF ruby_version \in DOMAIN RUBY_VERSION_MAP
    THEN RUBY_VERSION_MAP[ruby_version]
    ELSE ruby_version

\* The version _DetectRubyInterpreter returns from the output of
\* 'bundle platform --ruby', or None when it falls through to .ruby-version.
VersionFromBundler(ruby_info) ==
    IF MatchesNo(ruby_info) THEN None
    ELSE IF MatchRubyVersion(ruby_info) = None THEN None
    ELSE NormalizeVersion(MatchRubyVersion(ruby_info))

\* UnrecognizedPlatform without the test for 'No '.
UnrecognizedPlatformAlsoNo(ruby_info) == MatchRubyVersion(ruby_info) = None

\* Whether _DetectRubyInterpreter prints 'Unrecognized platform in Gemfile'.
UnrecognizedPlatform(ruby_info) ==
    ~MatchesNo(ruby_info) /\ MatchRubyVersion(ruby_info) = None

\* VersionFromFile with the strip() left out.
VersionFromFileUnstripped(contents) ==
    IF Truthy(contents) THEN contents ELSE None

\* The version _DetectRubyInterpreter returns from the contents of
\* .ruby-version (None: no such file), or None when it falls through.
VersionFromFile(contents) ==
    IF Truthy(contents) THEN Strip(contents) ELSE None

RECURSIVE SplitLines(_)
\* str.splitlines(): the lines, broken at \n, \r and \r\n, without the breaks.
SplitLines(s) ==
    IF s = <<>> THEN <<>>
    ELSE
        LET brk == {i \in 1..Len(s) : s[i] \in {"\n", "\r"}}
        IN  IF brk = {} THEN <<s>>
            ELSE
                LET i    == MinOf(brk)
                    last == IF s[i] = "\r" /\ i < Len(s) /\ s[i + 1] = "\n"
                            THEN i + 1 ELSE i
                IN  <<SubSeq(s, 1, i - 1)>> \o SplitLines(SubSeq(s, last + 1, Len(s)))

\* re.match(r'\s*\*\s+(\S+)\s+\(', line).group(1), or None when there is no
\* match.
GemOfLine(line) ==
    LET star  == 1 + RunOfSpace(line, 1)
        sp1   == IF star <= Len(line) THEN RunOfSpace(line, star + 1) ELSE 0
        name  == star + 1 + sp1
        n     == IF name <= Len(line) THEN RunOfNonSpace(line, name) ELSE 0
        sp2   == IF name + n <= Len(line) THEN RunOfSpace(line, name + n) ELSE 0
        paren == name + n + sp2
    IN  IF /\ star <= Len(line)
           /\ line[star] = "*"
           /\ sp1 > 0
           /\ n > 0
           /\ sp2 > 0
           /\ paren <= Len(line)
           /\ line[paren] = "("
        THEN SubSeq(line, name, name + n - 1)
        ELSE None

RECURSIVE GemsOfLines(_)
\* The loop of _DetectGems over the lines of 'bundle list'.
GemsOfLines(lines) ==
    IF lines = <<>> THEN <<>>
    ELSE (IF GemOfLine(Head(lines)) # None THEN <<GemOfLine(Head(lines))>> ELSE <<>>)
         \o GemsOfLines(Tail(lines))

\* _DetectGems, given the output of 'bundle list' when bundler is available.
DetectGems(bundler_available, bundle_list_out) ==
    IF bundler_available THEN GemsOfLines(SplitLines(bundle_list_out)) ELSE <<>>

\* _DetectDefaultEntrypoint when the Procfile is absent, puma and unicorn are
\* no gems, and config.ru is looked for.
ConsultsConfigRu(procfile, gems) ==
    ~procfile /\ GemPuma \notin Range(gems) /\ GemUnicorn \notin Range(gems)

\* DetectDefaultEntrypoint with the tests for puma and unicorn exchanged.
DetectDefaultEntrypointUnicornFirst(procfile, gems, config_ru) ==
    IF procfile THEN ENTRYPOINT_FOREMAN
    ELSE IF GemUnicorn \in Range(gems) THEN ENTRYPOINT_UNICORN
    ELSE IF GemPuma \in Range(gems) THEN ENTRYPOINT_PUMA
    ELSE IF config_ru THEN ENTRYPOINT_RACKUP
    ELSE <<>>

DetectDefaultEntrypoint(procfile, gems, config_ru) ==
    IF procfile THEN ENTRYPOINT_FOREMAN
    ELSE IF GemPuma \in Range(gems) THEN ENTRYPOINT_PUMA
    ELSE IF GemUnicorn \in Range(gems) THEN ENTRYPOINT_UNICORN
    ELSE IF config_ru THEN ENTRYPOINT_RACKUP
    ELSE <<>>

RECURSIVE PackageSet(_, _)
\* The loop of _DetectNeededPackages: package_set.update(GEM_PACKAGES[gem])
\* for each gem of the list that is a key.
PackageSet(gems, package_set) ==
    IF gems = <<>> THEN package_set
    ELSE PackageSet(Tail(gems),
                    IF Head(gems) \in DOMAIN GEM_PACKAGES
                    THEN package_set \cup Range(GEM_PACKAGES[Head(gems)])
                    ELSE package_set)

RECURSIVE SortedList(_)
\* list(package_set) followed by list.sort(): ascending in str order.
SortedList(S) ==
    IF S = {} THEN <<>>
    ELSE LET m == CHOOSE x \in S : \A y \in S : x = y \/ StrLess(x, y)
         IN  <<m>> \o SortedList(S \ {m})

RECURSIVE PackageList(_)
\* The packages of the gems appended to a list in the order of the gems.
PackageList(gems) ==
    IF gems = <<>> THEN <<>>
    ELSE (IF Head(gems) \in DOMAIN GEM_PACKAGES THEN GEM_PACKAGES[Head(gems)] ELSE <<>>)
         \o PackageList(Tail(gems))

\* DetectNeededPackages collecting into a list, neither a set nor sorted.
DetectNeededPackagesUnsorted(gems) == PackageList(gems)

DetectNeededPackages(gems) == SortedList(PackageSet(gems, {}))

\* HasConfiguredEntrypoint honouring the entrypoint of runtime: ruby only.
HasConfiguredEntrypointRubyOnly(appinfo) ==
    appinfo.present /\ appinfo.runtime = "ruby" /\ Truthy(appinfo.entrypoint)

\* Fingerprint, line 287: appinfo and appinfo.entrypoint
HasConfiguredEntrypoint(appinfo) ==
    appinfo.present /\ Truthy(appinfo.entrypoint)

\* ConfiguredEntrypoint stripping the configured value.
ConfiguredEntrypointStripped(appinfo) == Strip(appinfo.entrypoint)

\* Fingerprint, line 288: entrypoint = appinfo.entrypoint
ConfiguredEntrypoint(appinfo) == appinfo.entrypoint

\* ResolveResponse accepting an empty default instead of raising.
ResolveResponseNoRaise(response, default_entrypoint) ==
    LET entrypoint == Strip(response)
    IN  IF entrypoint # <<>> THEN [raised |-> FALSE, entrypoint |-> entrypoint]
        ELSE [raised |-> FALSE, entrypoint |-> default_entrypoint]

\* ResolveResponse with the strip() of the response left out.
ResolveResponseUnstripped(response, default_entrypoint) ==
    IF response # <<>> THEN [raised |-> FALSE, entrypoint |-> response]
    ELSE IF default_entrypoint = <<>> THEN [raised |-> TRUE, entrypoint |-> None]
    ELSE [raised |-> FALSE, entrypoint |-> default_entrypoint]

\* _ChooseEntrypoint on the interactive path: the stripped response, the
\* default when that is empty, and raised when both are.
ResolveResponse(response, default_entrypoint) ==
    LET entrypoint == Strip(response)
    IN  IF entrypoint # <<>> THEN [raised |-> FALSE, entrypoint |-> entrypoint]
        ELSE IF default_entrypoint = <<>> THEN [raised |-> TRUE, entrypoint |-> None]
        ELSE [raised |-> FALSE, entrypoint |-> default_entrypoint]

\* _CheckForRubyRuntime, line 310
\* DeclaredRuby accepting each of ALLOWED_RUNTIME_NAMES.
DeclaredRubyOrCustom(appinfo) == appinfo.present /\ appinfo.runtime \in {"ruby", "custom"}

DeclaredRuby(appinfo) == appinfo.present /\ appinfo.runtime = "ruby"

\* ----------------------------------------------------------------- state

VARIABLES
    pc,                 \* the position of the run in Fingerprint and after it
    params,             \* ext_runtime.Params: appinfo, custom, deploy
    env,                \* what the run has read of the source tree, the
                        \* console and bundler so far: name -> value
    ran,                \* the subprocess commands started, in order
    prompts,            \* the console prompts shown, in order
    log,                \* the messages written, in order: channel and text
    bundler_available,  \* Fingerprint's locals
    gems,
    ruby_version,
    packages,
    default_entrypoint,
    entrypoint,
    outcome,            \* "running", "none" (returned None), "raised", "returned"
    error,              \* the exception raised: its class and message
    configurator,       \* the RubyConfigurator returned
    dockerfile,         \* the blocks of the Dockerfile generated from it
    files,              \* what the run knows of app.yaml, Dockerfile and
                        \* .dockerignore under the root: name -> file
    written,            \* the files written under the root, in order
    results,            \* what the calls of the configurator returned, in order
    budget,             \* the calls the caller of Fingerprint still makes
    args,               \* the parsed arguments of the gcloud command that runs
    request,            \* what target-pools create's CreateRequests returned
    calls,              \* the calls node-pools delete's Run made, in order
    scopes,             \* the list passed to ExpandScopeAliases
    expanded_scopes     \* the list ExpandScopeAliases returned

vars == <<pc, params, env, ran, prompts, log, bundler_available, gems,
          ruby_version, packages, default_entrypoint, entrypoint, outcome,
          error, configurator, dockerfile, files, written, results, budget,
          args, request, calls, scopes, expanded_scopes>>

\* The state of the gcloud commands, which Fingerprint and the configurator
\* leave alone.
commands == <<args, request, calls, scopes, expanded_scopes>>

\* No gcloud command runs.
NoCommand ==
    /\ args = <<>>
    /\ request = <<>>
    /\ calls = <<>>
    /\ scopes = <<>>
    /\ expanded_scopes = <<>>

\* The root as the configurator's methods see and change it.
rendering == <<files, written, results, budget>>

locals == <<bundler_available, gems, ruby_version, packages,
            default_entrypoint, entrypoint>>

\* params.appinfo is None
NoAppinfo == [present |-> FALSE, runtime |-> "", entrypoint |-> None]

\* An app.yaml that was parsed: its effective runtime and its entrypoint
\* (None when the file has none).
Appinfo(runtime, configured) ==
    [present |-> TRUE, runtime |-> runtime, entrypoint |-> configured]

NoError == [class |-> "", message |-> ""]

NoConfigurator ==
    [made |-> FALSE, params |-> [appinfo |-> NoAppinfo, custom |-> FALSE, deploy |-> FALSE],
     ruby_version |-> None, entrypoint |-> None, packages |-> <<>>, notify |-> ""]

\* The exception classes of the module; each is a RubyConfigError.
ErrorClasses == {"RubyConfigError", "MissingGemfileError", "StaleBundleError"}

\* The conditions on which Fingerprint raises.
FatalConditions ==
    {"missing_gemfile", "stale_bundle", "subprocess_failed",
     "missing_entrypoint", "non_interactive"}

\* The exception class of the raise statement for each condition: lines
\* 343, 350, 526, 485 and 502.
ErrorKind(condition) ==
    CASE condition = "missing_gemfile" -> "MissingGemfileError"
      [] condition = "stale_bundle" -> "StaleBundleError"
      [] condition = "subprocess_failed" -> "RubyConfigError"
      [] condition = "missing_entrypoint" -> "RubyConfigError"
      [] condition = "non_interactive" -> "RubyConfigError"

\* The value the run reads for `name`: the one it read before, or any of S.
Probe(name, S) == IF name \in DOMAIN env THEN {env[name]} ELSE S

Learn(e, name, value) == IF name \in DOMAIN e THEN e ELSE e @@ (name :> value)

Known(name) == name \in DOMAIN env

Status(text, arg) == [channel |-> "status", text |-> text, arg |-> arg]

Info(text, arg) == [channel |-> "info", text |-> text, arg |-> arg]

\* _RunSubprocess and _SubprocessSucceeds: the exit status and the output.
Exit(ok, out) == [ok |-> ok, out |-> out]

\* A console prompt: the console_io function and the default it displays.
Asked(prompt, shown) == [prompt |-> prompt, shown |-> shown]

\* _RunSubprocess returning the output whatever the exit status.
RunSubprocessNeverRaises(exit) == [raised |-> FALSE, out |-> exit.out]

\* _RunSubprocess(cmd), given how the command exits: raises when the exit
\* status is not 0, returns the output otherwise.
RunSubprocess(exit) == [raised |-> ~exit.ok, out |-> exit.out]

\* The error recorded while Fingerprint goes on to return a configurator.
RaiseAndGoOn(class, message) ==
    /\ outcome' = outcome
    /\ error' = [class |-> class, message |-> message]
    /\ pc' = "return"

Raise(class, message) ==
    /\ outcome' = "raised"
    /\ error' = [class |-> class, message |-> message]
    /\ pc' = "done"

\* --------------------------------------------------------- sample inputs

SampleEntrypoints ==
    { None,
      <<>>,
      <<" ">>,
      <<".", "/", "s", "t", "a", "r", "t">>,
      <<" ", ".", "/", "r", "u", "n", " ", "-", "p", " ", "8", "0", "8", "0", " ">> }

SampleRuntimes == {"ruby", "custom"}

SampleAppinfos ==
    {NoAppinfo} \cup {Appinfo(r, e) : r \in SampleRuntimes, e \in SampleEntrypoints}

SampleParams ==
    [appinfo : SampleAppinfos, custom : BOOLEAN, deploy : BOOLEAN]

\* What the user types at the entrypoint question.
SampleResponses ==
    { <<>>,
      <<" ", "\n">>,
      <<"r", "a", "c", "k", "u", "p", "\n">>,
      <<" ", "m", "y", " ", "a", "p", "p", " ", "\n">> }

\* Outputs of 'bundle platform --ruby'.
SamplePlatforms ==
    { Exit(FALSE, <<>>),
      Exit(TRUE, <<"r", "u", "b", "y", " ", "2", ".", "0", ".", "0", "p", "6", "4", "5", "\n">>),
      Exit(TRUE, <<"r", "u", "b", "y", " ", "2", ".", "3", ".", "0", "\n">>),
      Exit(TRUE, <<"r", "u", "b", "y", " ", "2", ".", "2", "\n">>),
      Exit(TRUE, <<"N", "o", " ", "r", "u", "b", "y", " ", "v", "e", "r", "s", "i", "o", "n", " ",
                   "s", "p", "e", "c", "i", "f", "i", "e", "d", "\n">>),
      Exit(TRUE, <<"j", "r", "u", "b", "y", " ", "9", "\n">>) }

\* Contents of .ruby-version; None: there is no such file.
SampleVersionFiles ==
    { None,
      <<>>,
      <<" ", "\n">>,
      <<"2", ".", "0", ".", "0", "\n">>,
      <<"2", ".", "2", ".", "4">> }

RECURSIVE BundleListLines(_)
\* The lines 'bundle list' prints for the gems of a bundle.
BundleListLines(names) ==
    IF names = <<>> THEN <<>>
    ELSE <<" ", " ", "*", " ">> \o Head(names) \o <<" ", "(", "1", ".", "0", ")", "\n">>
         \o BundleListLines(Tail(names))

BundleListOutput(names) ==
    <<"G", "e", "m", "s", " ", "i", "n", "c", "l", "u", "d", "e", "d", " ", "b", "y", " ",
      "t", "h", "e", " ", "b", "u", "n", "d", "l", "e", ":", "\n">> \o BundleListLines(names)

SampleBundles ==
    { <<>>, <<GemRails>>, <<GemPuma>>, <<GemUnicorn>>, <<GemRgeo>>,
      <<GemUnicorn, GemRails, GemPuma>>, <<GemRgeo, GemUnicorn, GemRgeo>> }

\* Outputs of 'bundle list'.
SampleBundleLists ==
    {Exit(FALSE, <<>>), Exit(TRUE, <<>>)}
    \cup {Exit(TRUE, BundleListOutput(b)) : b \in SampleBundles}

\* --------------------------------------------------------------- actions

Init ==
    /\ pc = "check_runtime"
    /\ params \in SampleParams
    /\ env = <<>>
    /\ ran = <<>>
    /\ prompts = <<>>
    /\ log = <<>>
    /\ bundler_available = FALSE
    /\ gems = <<>>
    /\ ruby_version = None
    /\ packages = <<>>
    /\ default_entrypoint = None
    /\ entrypoint = None
    /\ outcome = "running"
    /\ error = NoError
    /\ configurator = NoConfigurator
    /\ dockerfile = <<>>
    /\ files = <<>>
    /\ written = <<>>
    /\ results = <<>>
    /\ budget = 1
    /\ NoCommand

\* _CheckForRubyRuntime(path, appinfo), and Fingerprint's return None when
\* it is false.
CheckForRubyRuntime ==
    /\ pc = "check_runtime"
    /\ UNCHANGED commands
    /\ UNCHANGED <<params, ran, locals, error, configurator, dockerfile, rendering>>
    /\ \/ /\ DeclaredRuby(params.appinfo)
          /\ pc' = "check_environment"
          /\ UNCHANGED <<env, prompts, log, outcome>>
       \/ /\ ~DeclaredRuby(params.appinfo)
          /\ \E gemfile \in Probe("Gemfile", BOOLEAN) :
                \/ /\ ~gemfile
                   /\ env' = Learn(env, "Gemfile", gemfile)
                   /\ log' = Append(log, Info("Checking for Ruby.", <<>>))
                   /\ outcome' = "none"
                   /\ pc' = "done"
                   /\ UNCHANGED prompts
                \/ /\ gemfile
                   /\ \E can \in Probe("CanPrompt", BOOLEAN) :
                         \/ /\ can
                            /\ \E proceed \in Probe("PromptContinue", BOOLEAN) :
                                  /\ env' = Learn(Learn(Learn(env, "Gemfile", gemfile),
                                                        "CanPrompt", can),
                                                  "PromptContinue", proceed)
                                  /\ prompts' = Append(prompts, Asked("PromptContinue", <<>>))
                                  /\ log' = Append(log, Info("Checking for Ruby.", <<>>))
                                  /\ outcome' = IF proceed THEN outcome ELSE "none"
                                  /\ pc' = IF proceed THEN "check_environment" ELSE "done"
                         \/ /\ ~can
                            /\ env' = Learn(Learn(env, "Gemfile", gemfile), "CanPrompt", can)
                            /\ log' = log \o <<Info("Checking for Ruby.", <<>>),
                                               Info("This looks like a Ruby application.", <<>>)>>
                            /\ pc' = "check_environment"
                            /\ UNCHANGED <<prompts, outcome>>

\* What _CheckEnvironment does: nothing raised and no notice.
Checked(available) == [raises |-> "", available |-> available, notice |-> ""]

\* CheckEnvironmentResult taking a missing Gemfile.lock for a stale bundle.
CheckEnvironmentResultLockRequired(gemfile, lock, version_ok, check_ok) ==
    IF ~gemfile THEN [Checked(FALSE) EXCEPT !.raises = "missing_gemfile"]
    ELSE IF version_ok
         THEN IF ~check_ok \/ ~lock THEN [Checked(TRUE) EXCEPT !.raises = "stale_bundle"]
              ELSE Checked(TRUE)
         ELSE [Checked(FALSE) EXCEPT !.notice = "NOTICE: gcloud could not run bundler"]

\* CheckEnvironmentResult returning True although 'bundle version' failed.
CheckEnvironmentResultAlwaysAvailable(gemfile, lock, version_ok, check_ok) ==
    IF ~gemfile THEN [Checked(FALSE) EXCEPT !.raises = "missing_gemfile"]
    ELSE IF version_ok
         THEN IF ~check_ok THEN [Checked(TRUE) EXCEPT !.raises = "stale_bundle"]
              ELSE IF ~lock
                   THEN [Checked(TRUE) EXCEPT !.notice = "NOTICE: We could not find a Gemfile.lock"]
                   ELSE Checked(TRUE)
         ELSE [Checked(TRUE) EXCEPT !.notice = "NOTICE: gcloud could not run bundler"]

\* What _CheckEnvironment does with the facts it gathers: the condition it
\* raises on, or else the availability it returns and the notice it prints.
CheckEnvironmentResult(gemfile, lock, version_ok, check_ok) ==
    IF ~gemfile THEN [Checked(FALSE) EXCEPT !.raises = "missing_gemfile"]
    ELSE IF version_ok
         THEN IF ~check_ok THEN [Checked(TRUE) EXCEPT !.raises = "stale_bundle"]
              ELSE IF ~lock
                   THEN [Checked(TRUE) EXCEPT !.notice = "NOTICE: We could not find a Gemfile.lock"]
                   ELSE Checked(TRUE)
         ELSE [Checked(FALSE) EXCEPT !.notice = "NOTICE: gcloud could not run bundler"]

\* The end of _CheckEnvironment with that result.
EnvironmentChecked(result) ==
    IF result.raises # ""
    THEN /\ Raise(ErrorKind(result.raises),
                  IF result.raises = "missing_gemfile"
                  THEN "Gemfile is required for Ruby runtime."
                  ELSE "Your bundle is not up-to-date.")
         /\ UNCHANGED <<log, bundler_available>>
    ELSE /\ log' = IF result.notice # "" THEN Append(log, Status(result.notice, <<>>)) ELSE log
         /\ bundler_available' = result.available
         /\ pc' = "detect_gems"
         /\ UNCHANGED <<outcome, error>>

\* _CheckEnvironment(path)
CheckEnvironment ==
    /\ pc = "check_environment"
    /\ UNCHANGED commands
    /\ UNCHANGED <<params, prompts, gems, ruby_version, packages,
                   default_entrypoint, entrypoint, configurator, dockerfile, rendering>>
    /\ \E gemfile \in Probe("Gemfile", BOOLEAN) :
          \/ /\ ~gemfile
             /\ env' = Learn(env, "Gemfile", gemfile)
             /\ UNCHANGED ran
             /\ EnvironmentChecked(CheckEnvironmentResult(gemfile, FALSE, FALSE, FALSE))
          \/ /\ gemfile
             /\ \E lock \in Probe("Gemfile.lock", BOOLEAN),
                   version_ok \in Probe("bundle version", BOOLEAN) :
                   \/ /\ version_ok
                      /\ \E check_ok \in Probe("bundle check", BOOLEAN) :
                            /\ env' = Learn(Learn(Learn(Learn(env, "Gemfile", gemfile),
                                                        "Gemfile.lock", lock),
                                                  "bundle version", version_ok),
                                            "bundle check", check_ok)
                            /\ ran' = ran \o <<"bundle version", "bundle check">>
                            /\ EnvironmentChecked(
                                   CheckEnvironmentResult(gemfile, lock, version_ok, check_ok))
                   \/ /\ ~version_ok
                      /\ env' = Learn(Learn(Learn(env, "Gemfile", gemfile),
                                            "Gemfile.lock", lock),
                                      "bundle version", version_ok)
                      /\ ran' = Append(ran, "bundle version")
                      /\ EnvironmentChecked(
                             CheckEnvironmentResult(gemfile, lock, version_ok, FALSE))

\* _DetectGems(bundler_available)
DetectGemsStep ==
    /\ pc = "detect_gems"
    /\ UNCHANGED commands
    /\ UNCHANGED <<params, prompts, log, bundler_available, ruby_version,
                   packages, default_entrypoint, entrypoint, configurator, dockerfile, rendering>>
    /\ \/ /\ ~bundler_available
          /\ gems' = DetectGems(bundler_available, <<>>)
          /\ pc' = "detect_interpreter"
          /\ UNCHANGED <<env, ran, outcome, error>>
       \/ /\ bundler_available
          /\ \E list \in Probe("bundle list", SampleBundleLists) :
                /\ env' = Learn(env, "bundle list", list)
                /\ ran' = Append(ran, "bundle list")
                /\ \/ /\ RunSubprocess(list).raised
                      /\ Raise(ErrorKind("subprocess_failed"), "Unable to run script: [bundle list]")
                      /\ UNCHANGED gems
                   \/ /\ ~RunSubprocess(list).raised
                      /\ gems' = DetectGems(bundler_available, RunSubprocess(list).out)
                      /\ pc' = "detect_interpreter"
                      /\ UNCHANGED <<outcome, error>>

\* The rest of _DetectRubyInterpreter once bundler gave no version: the
\* .ruby-version file, then the default.  e, r and l are env, ran and log
\* as the first half of the function left them.
InterpreterFromFile(e, r, l) ==
    \E contents \in Probe(".ruby-version", SampleVersionFiles) :
        /\ env' = Learn(e, ".ruby-version", contents)
        /\ ran' = r
        /\ ruby_version' = VersionFromFile(contents)
        /\ log' = Append(l,
                IF VersionFromFile(contents) # None
                THEN Status("Using Ruby {0} as requested in the .ruby-version file",
                            VersionFromFile(contents))
                ELSE Status("NOTICE: We will deploy your application using a recent version",
                            PREFERRED_RUBY_VERSION))
        /\ pc' = "detect_packages"
        /\ UNCHANGED <<outcome, error>>

\* _DetectRubyInterpreter(path, bundler_available)
DetectRubyInterpreter ==
    /\ pc = "detect_interpreter"
    /\ UNCHANGED commands
    /\ UNCHANGED <<params, prompts, bundler_available, gems, packages,
                   default_entrypoint, entrypoint, configurator, dockerfile, rendering>>
    /\ \/ /\ bundler_available
          /\ \E platform \in Probe("bundle platform --ruby", SamplePlatforms) :
                LET e == Learn(env, "bundle platform --ruby", platform)
                    r == Append(ran, "bundle platform --ruby")
                    ruby_info == RunSubprocess(platform).out
                IN  \/ /\ RunSubprocess(platform).raised
                       /\ env' = e
                       /\ ran' = r
                       /\ Raise(ErrorKind("subprocess_failed"),
                                "Unable to run script: [bundle platform --ruby]")
                       /\ UNCHANGED <<log, ruby_version>>
                    \/ /\ ~RunSubprocess(platform).raised
                       /\ VersionFromBundler(ruby_info) # None
                       /\ env' = e
                       /\ ran' = r
                       /\ ruby_version' = VersionFromBundler(ruby_info)
                       /\ log' = Append(log, Status("Using Ruby {0} as requested in the Gemfile.",
                                                    VersionFromBundler(ruby_info)))
                       /\ pc' = "detect_packages"
                       /\ UNCHANGED <<outcome, error>>
                    \/ /\ ~RunSubprocess(platform).raised
                       /\ VersionFromBundler(ruby_info) = None
                       /\ InterpreterFromFile(e, r,
                              IF UnrecognizedPlatform(ruby_info)
                              THEN Append(log, Status("Unrecognized platform in Gemfile: [{0}]",
                                                      ruby_info))
                              ELSE log)
       \/ /\ ~bundler_available
          /\ InterpreterFromFile(env, ran, log)

\* _DetectNeededPackages(gems)
DetectNeededPackagesStep ==
    /\ pc = "detect_packages"
    /\ UNCHANGED commands
    /\ packages' = DetectNeededPackages(gems)
    /\ pc' = "resolve_entrypoint"
    /\ UNCHANGED <<params, env, ran, prompts, log, bundler_available, gems,
                   ruby_version, default_entrypoint, entrypoint, outcome, error,
                   configurator, dockerfile, rendering>>

\* Fingerprint, lines 287 to 291: the configured entrypoint, or else
\* _DetectDefaultEntrypoint(path, gems) for _ChooseEntrypoint.
ResolveEntrypoint ==
    /\ pc = "resolve_entrypoint"
    /\ UNCHANGED commands
    /\ UNCHANGED <<params, ran, prompts, log, bundler_available, gems,
                   ruby_version, packages, outcome, error, configurator, dockerfile, rendering>>
    /\ \/ /\ HasConfiguredEntrypoint(params.appinfo)
          /\ entrypoint' = ConfiguredEntrypoint(params.appinfo)
          /\ pc' = "return"
          /\ UNCHANGED <<env, default_entrypoint>>
       \/ /\ ~HasConfiguredEntrypoint(params.appinfo)
          /\ \E procfile \in Probe("Procfile", BOOLEAN) :
                \/ /\ ConsultsConfigRu(procfile, gems)
                   /\ \E config_ru \in Probe("config.ru", BOOLEAN) :
                         /\ env' = Learn(Learn(env, "Procfile", procfile), "config.ru", config_ru)
                         /\ default_entrypoint' = DetectDefaultEntrypoint(procfile, gems, config_ru)
                \/ /\ ~ConsultsConfigRu(procfile, gems)
                   /\ env' = Learn(env, "Procfile", procfile)
                   /\ default_entrypoint' = DetectDefaultEntrypoint(procfile, gems, FALSE)
          /\ pc' = "choose_entrypoint"
          /\ UNCHANGED entrypoint

\* ChooseEntrypointResult taking the default when it cannot prompt.
ChooseEntrypointResultDefault(can_prompt, response, default) ==
    IF can_prompt THEN ResolveResponse(response, default)
    ELSE [raised |-> FALSE, entrypoint |-> default]

\* What _ChooseEntrypoint does with the answers of the console: the
\* entrypoint it returns, or raised.
ChooseEntrypointResult(can_prompt, response, default) ==
    IF can_prompt THEN ResolveResponse(response, default)
    ELSE [raised |-> TRUE, entrypoint |-> None]

\* _ChooseEntrypoint(default_entrypoint, appinfo)
ChooseEntrypoint ==
    /\ pc = "choose_entrypoint"
    /\ UNCHANGED commands
    /\ UNCHANGED <<params, ran, bundler_available, gems, ruby_version, packages,
                   default_entrypoint, configurator, dockerfile, rendering>>
    /\ \E can \in Probe("CanPrompt", BOOLEAN) :
          \/ /\ can
             /\ \E response \in Probe("PromptResponse", SampleResponses) :
                   LET chosen == ChooseEntrypointResult(can, response, default_entrypoint)
                   IN  /\ env' = Learn(Learn(env, "CanPrompt", can), "PromptResponse", response)
                       /\ prompts' = Append(prompts, Asked("PromptResponse", default_entrypoint))
                       /\ \/ /\ chosen.raised
                             /\ Raise(ErrorKind("missing_entrypoint"), "Entrypoint command is required.")
                             /\ UNCHANGED <<log, entrypoint>>
                          \/ /\ ~chosen.raised
                             /\ entrypoint' = chosen.entrypoint
                             /\ log' = IF params.appinfo.present
                                       THEN Append(log, Status("To avoid being asked for an entrypoint in the future",
                                                               chosen.entrypoint))
                                       ELSE log
                             /\ pc' = "return"
                             /\ UNCHANGED <<outcome, error>>
          \/ /\ ~can
             /\ LET chosen == ChooseEntrypointResult(can, <<>>, default_entrypoint)
                IN  /\ env' = Learn(env, "CanPrompt", can)
                    /\ \/ /\ chosen.raised
                          /\ Raise(ErrorKind("non_interactive"),
                                   "gcloud is not running interactively and cannot ask for the entrypoint")
                          /\ UNCHANGED entrypoint
                       \/ /\ ~chosen.raised
                          /\ entrypoint' = chosen.entrypoint
                          /\ pc' = "return"
                          /\ UNCHANGED <<outcome, error>>
                    /\ UNCHANGED <<prompts, log>>

\* The notices of the configurator always printed to the console.
NotifyChannelAlwaysStatus(deploy) == "status"

\* RubyConfigurator.__init__, lines 175 to 178: log.info when deploying,
\* log.status.Print otherwise.
NotifyChannel(deploy) == IF deploy THEN "info" ELSE "status"

\* RubyConfigurator.__init__, and Fingerprint's return of the configurator
Return ==
    /\ pc = "return"
    /\ UNCHANGED commands
    /\ configurator' =
            [made |-> TRUE, params |-> params, ruby_version |-> ruby_version,
             entrypoint |-> entrypoint, packages |-> packages,
             notify |-> NotifyChannel(params.deploy)]
    /\ outcome' = "returned"
    /\ pc' = "returned"
    /\ UNCHANGED <<params, env, ran, prompts, log, locals, error, dockerfile, rendering>>

\* One block of the Dockerfile: the template and what .format() puts in it.
Block(template, arg) == [template |-> template, arg |-> arg]

\* InterpreterBlock formatting the version whatever it is.
InterpreterBlockAlwaysPins(version) == Block("DOCKERFILE_CUSTOM_INTERPRETER", version)

\* RubyConfigurator._GenerateDockerfile, lines 239 to 243
InterpreterBlock(version) ==
    IF Truthy(version) THEN Block("DOCKERFILE_CUSTOM_INTERPRETER", version)
    ELSE Block("DOCKERFILE_DEFAULT_INTERPRETER", <<>>)

\* RubyConfigurator._GenerateDockerfile, lines 244 to 248
PackagesBlock(pkgs) ==
    IF pkgs # <<>> THEN Block("DOCKERFILE_MORE_PACKAGES", Join(<<" ">>, pkgs))
    ELSE Block("DOCKERFILE_NO_MORE_PACKAGES", <<>>)

\* RubyConfigurator._GenerateDockerfile: the blocks joined by newlines.
DockerfileOf(c) ==
    << Block("DOCKERFILE_HEADER", <<>>),
       InterpreterBlock(c.ruby_version),
       PackagesBlock(c.packages),
       Block("DOCKERFILE_GEM_INSTALL", <<>>),
       Block("DOCKERFILE_ENTRYPOINT", c.entrypoint) >>

\* APP_YAML_CONTENTS with the entrypoint on the line of the runtime.
AppYamlContentsNoBreak(runtime, entry) ==
    <<"e", "n", "v", ":", " ", "f", "l", "e", "x", "\n",
      "r", "u", "n", "t", "i", "m", "e", ":", " ">> \o runtime
    \o <<" ", "e", "n", "t", "r", "y", "p", "o", "i", "n", "t", ":", " ">>
    \o (IF entry = None THEN <<"N", "o", "n", "e">> ELSE entry)
    \o <<"\n">>

\* APP_YAML_CONTENTS.format(runtime=runtime, entrypoint=entrypoint); format
\* writes None as the text 'None'.
AppYamlContents(runtime, entry) ==
    <<"e", "n", "v", ":", " ", "f", "l", "e", "x", "\n",
      "r", "u", "n", "t", "i", "m", "e", ":", " ">> \o runtime
    \o <<"\n", "e", "n", "t", "r", "y", "p", "o", "i", "n", "t", ":", " ">>
    \o (IF entry = None THEN <<"N", "o", "n", "e">> ELSE entry)
    \o <<"\n">>

DOCKERIGNORE_CONTENTS ==
    <<".", "d", "o", "c", "k", "e", "r", "i", "g", "n", "o", "r", "e", "\n",
      "D", "o", "c", "k", "e", "r", "f", "i", "l", "e", "\n",
      ".", "g", "i", "t", "\n", ".", "h", "g", "\n", ".", "s", "v", "n", "\n">>

\* ext_runtime.GeneratedFile(filename, contents): one output file.
GeneratedFile(filename, contents) == [filename |-> filename, contents |-> contents]

\* RubyConfigurator._GenerateAppYaml, line 226
AppYamlRuntime(custom) ==
    IF custom THEN <<"c", "u", "s", "t", "o", "m">> ELSE <<"r", "u", "b", "y">>

\* RubyConfigurator._GenerateAppYaml
GenerateAppYaml(c) ==
    GeneratedFile("app.yaml", AppYamlContents(AppYamlRuntime(c.params.custom), c.entrypoint))

\* RubyConfigurator._GenerateDockerfile
GenerateDockerfile(c) == GeneratedFile("Dockerfile", DockerfileOf(c))

\* RubyConfigurator._GenerateDockerignore
GenerateDockerignore(c) == GeneratedFile(".dockerignore", DOCKERIGNORE_CONTENTS)

\* The Dockerfile and the .dockerignore of GenerateConfigs and of
\* GenerateConfigData, for params.custom alone.
ContainerFilesCustomOnly(c) ==
    IF c.params.custom
    THEN <<GenerateDockerfile(c), GenerateDockerignore(c)>>
    ELSE <<>>

\* GenerateConfigs, lines 189 to 191, and GenerateConfigData, lines 211 to 214
ContainerFiles(c) ==
    IF c.params.custom \/ c.params.deploy
    THEN <<GenerateDockerfile(c), GenerateDockerignore(c)>>
    ELSE <<>>

\* GenerateConfigs, lines 187 to 188, and GenerateConfigData, lines 207 to 208
AppYamlFiles(c) ==
    IF ~c.params.appinfo.present THEN <<GenerateAppYaml(c)>> ELSE <<>>

\* GenerateConfigs, lines 186 to 191: all_config_files
AllConfigFiles(c) == AppYamlFiles(c) \o ContainerFiles(c)

FileNames(list) == {list[i].filename : i \in DOMAIN list}

\* ------------------------------------------------- the files of the root

\* A name under the root with no file, and with a file of these contents.
Absent == [exists |-> FALSE, contents |-> <<>>]

Present(contents) == [exists |-> TRUE, contents |-> contents]

\* What a config file holds that was in the tree before gcloud ran.
OldContents(filename) ==
    IF filename = "Dockerfile" THEN <<Block("OLD", <<>>)>> ELSE <<"o", "l", "d", "\n">>

OnDisk(filename) == {Absent, Present(OldContents(filename))}

\* The root once the run has looked at `names`: what it knew of the files
\* stays, and each name it had not looked at has or has not a file.
Observations(names) ==
    LET fresh == names \ DOMAIN files
    IN  { files @@ g : g \in { h \in [fresh -> UNION {OnDisk(n) : n \in fresh}] :
                                    \A n \in fresh : h[n] \in OnDisk(n) } }

\* os.path.exists(os.path.join(root, filename))
Exists(fs, filename) == fs[filename].exists

\* GeneratedFile.WriteTo writing the file whether or not it exists.
WriteToOverwriting(fs, file) ==
    [files |-> [fs EXCEPT ![file.filename] = Present(file.contents)], created |-> TRUE]

\* ext_runtime.GeneratedFile.WriteTo(dest_dir, notify): writes the file only
\* if dest_dir has none of that name, and returns whether it wrote.
WriteTo(fs, file) ==
    IF Exists(fs, file.filename)
    THEN [files |-> fs, created |-> FALSE]
    ELSE [files |-> [fs EXCEPT ![file.filename] = Present(file.contents)], created |-> TRUE]

RECURSIVE WriteAllOverwriting(_, _)
\* WriteAll opening every file of the list for writing.
WriteAllOverwriting(fs, list) ==
    IF list = <<>> THEN [files |-> fs, created |-> <<>>]
    ELSE LET first == WriteToOverwriting(fs, Head(list))
             rest == WriteAllOverwriting(first.files, Tail(list))
         IN  [files |-> rest.files, created |-> <<first.created>> \o rest.created]

RECURSIVE WriteAll(_, _)
\* GenerateConfigs, lines 193 to 194: WriteTo for each file of the list, in
\* order; the root afterwards and the list `created`.
WriteAll(fs, list) ==
    IF list = <<>> THEN [files |-> fs, created |-> <<>>]
    ELSE LET first == WriteTo(fs, Head(list))
             rest == WriteAll(first.files, Tail(list))
         IN  [files |-> rest.files, created |-> <<first.created>> \o rest.created]

\* The list `created` taken for any(created).
AnyCreatedNonEmpty(created) == created # <<>>

\* any(created)
AnyCreated(created) == \E i \in DOMAIN created : created[i]

\* The files of the list that WriteTo wrote.
Created(list, created) ==
    SelectSeq([i \in DOMAIN list |-> [filename |-> list[i].filename, created |-> created[i]]],
              LAMBDA x : x.created)

\* GenerateConfigData, lines 216 to 217
NotExisting(fs, list) == SelectSeq(list, LAMBDA f : ~Exists(fs, f.filename))

\* What a call of the configurator did: the method, the files it generated,
\* the files it wrote, and what it returned (a bool for GenerateConfigs, a
\* list of files for GenerateConfigData).
Result(op, attempted, wrote, value, data) ==
    [op |-> op, attempted |-> attempted, wrote |-> wrote, value |-> value, data |-> data]

\* notify(...): log.info when deploying, log.status.Print otherwise
Notify(channel, text) == [channel |-> channel, text |-> text, arg |-> <<>>]

\* RubyConfigurator.GenerateConfigs()
GenerateConfigs ==
    /\ pc = "returned"
    /\ UNCHANGED commands
    /\ budget > 0
    /\ LET all_config_files == AllConfigFiles(configurator)
       IN  \E seen \in Observations(FileNames(all_config_files)) :
              LET done == WriteAll(seen, all_config_files)
              IN  /\ files' = done.files
                  /\ written' = written \o Created(all_config_files, done.created)
                  /\ log' = IF ~AnyCreated(done.created)
                            THEN Append(log, Notify(configurator.notify,
                                     "All config files already exist. No files generated."))
                            ELSE log
                  /\ results' = Append(results,
                                       Result("GenerateConfigs", all_config_files,
                                              Created(all_config_files, done.created),
                                              AnyCreated(done.created), <<>>))
    /\ dockerfile' = IF ContainerFiles(configurator) # <<>>
                     THEN ContainerFiles(configurator)[1].contents
                     ELSE dockerfile
    /\ budget' = budget - 1
    /\ pc' = IF budget = 1 THEN "done" ELSE pc
    /\ UNCHANGED <<params, env, ran, prompts, locals, outcome, error, configurator>>

\* RubyConfigurator.GenerateConfigData()
GenerateConfigData ==
    /\ pc = "returned"
    /\ UNCHANGED commands
    /\ budget > 0
    /\ LET app_yaml == AppYamlFiles(configurator)
           all_config_files == ContainerFiles(configurator)
       IN  \E seen \in Observations(FileNames(app_yaml) \cup FileNames(all_config_files)) :
              LET done == WriteAll(seen, app_yaml)
              IN  /\ files' = done.files
                  /\ written' = written \o Created(app_yaml, done.created)
                  /\ results' = Append(results,
                                       Result("GenerateConfigData",
                                              app_yaml \o all_config_files,
                                              Created(app_yaml, done.created), FALSE,
                                              NotExisting(done.files, all_config_files)))
    /\ dockerfile' = IF ContainerFiles(configurator) # <<>>
                     THEN ContainerFiles(configurator)[1].contents
                     ELSE dockerfile
    /\ budget' = budget - 1
    /\ pc' = IF budget = 1 THEN "done" ELSE pc
    /\ UNCHANGED <<params, env, ran, prompts, log, locals, outcome, error, configurator>>

Next ==
    \/ CheckForRubyRuntime
    \/ CheckEnvironment
    \/ DetectGemsStep
    \/ DetectRubyInterpreter
    \/ DetectNeededPackagesStep
    \/ ResolveEntrypoint
    \/ ChooseEntrypoint
    \/ Return
    \/ GenerateConfigs
    \/ GenerateConfigData

Spec == Init /\ [][Next]_vars

\* ------------------------------------------- specifications of the parts

\* The longest gem list and the most components of a version text that the
\* specifications of the single functions draw.
MaxGems == 3

MaxComponents == 3

GemNames == {GemRails, GemPuma, GemUnicorn, GemRgeo}

GemLists == UNION {[1..n -> GemNames] : n \in 0..MaxGems}

DigitTexts ==
    { <<"0">>, <<"1">>, <<"2">>, <<"3">>, <<"6">>, <<"7">>, <<"8">>, <<"9">>,
      <<"1", "0">> }

RECURSIVE Dotted(_)
\* The texts of n numbers separated by dots.
Dotted(n) ==
    IF n = 1 THEN DigitTexts
    ELSE {a \o <<".">> \o d : a \in Dotted(n - 1), d \in DigitTexts}

VersionTexts == UNION {Dotted(n) : n \in 1..MaxComponents}

PlatformPrefixes == {RubyPrefix, <<"j", "r", "u", "b", "y", " ">>}

PlatformSuffixes ==
    {<<>>, <<"\n">>, <<"p", "6", "4", "5", "\n">>, <<".">>}

\* Outputs of 'bundle platform --ruby' built around a version text.
PlatformTexts ==
    {a \o v \o z : a \in PlatformPrefixes, v \in VersionTexts, z \in PlatformSuffixes}

\* The locals of Fingerprint and the results of a run that has not ended.
Unfinished ==
    /\ ran = <<>>
    /\ prompts = <<>>
    /\ log = <<>>
    /\ ruby_version = None
    /\ default_entrypoint = None
    /\ entrypoint = None
    /\ outcome = "running"
    /\ error = NoError
    /\ configurator = NoConfigurator
    /\ dockerfile = <<>>
    /\ files = <<>>
    /\ written = <<>>
    /\ results = <<>>
    /\ budget = 1

\* _DetectNeededPackages on every gem list up to MaxGems.
InitPackages ==
    /\ pc = "detect_packages"
    /\ params = [appinfo |-> NoAppinfo, custom |-> FALSE, deploy |-> FALSE]
    /\ env = ("Gemfile" :> TRUE)
    /\ bundler_available = TRUE
    /\ gems \in GemLists
    /\ packages = <<>>
    /\ Unfinished
    /\ NoCommand

SpecPackages == InitPackages /\ [][DetectNeededPackagesStep]_vars

\* _DetectDefaultEntrypoint on every gem list up to MaxGems and every
\* combination of Procfile and config.ru.
InitDefaultEntrypoint ==
    /\ pc = "resolve_entrypoint"
    /\ params \in [appinfo : {NoAppinfo, Appinfo("ruby", None),
                              Appinfo("ruby", <<".", "/", "s", "t", "a", "r", "t">>)},
                   custom : {FALSE}, deploy : {FALSE}]
    /\ \E procfile \in BOOLEAN, config_ru \in BOOLEAN :
          env = ("Gemfile" :> TRUE) @@ ("Procfile" :> procfile) @@ ("config.ru" :> config_ru)
    /\ bundler_available = TRUE
    /\ gems \in GemLists
    /\ packages = DetectNeededPackages(gems)
    /\ Unfinished
    /\ NoCommand

SpecDefaultEntrypoint == InitDefaultEntrypoint /\ [][ResolveEntrypoint]_vars

\* _DetectRubyInterpreter on every platform text up to MaxComponents.
InitInterpreter ==
    /\ pc = "detect_interpreter"
    /\ params = [appinfo |-> NoAppinfo, custom |-> FALSE, deploy |-> FALSE]
    /\ \E available \in BOOLEAN :
          /\ bundler_available = available
          /\ IF available
             THEN \E platform \in SamplePlatforms \cup {Exit(TRUE, t) : t \in PlatformTexts} :
                     env = ("Gemfile" :> TRUE) @@ ("bundle platform --ruby" :> platform)
             ELSE env = ("Gemfile" :> TRUE)
    /\ gems = <<>>
    /\ packages = <<>>
    /\ Unfinished
    /\ NoCommand

SpecInterpreter == InitInterpreter /\ [][DetectRubyInterpreter]_vars

\* The most calls of GenerateConfigs and GenerateConfigData that the caller
\* of a configurator makes.
MaxCalls == 2

ConfigFileNames == {"app.yaml", "Dockerfile", ".dockerignore"}

\* Every combination of config files in the tree before the calls.
SampleTrees ==
    { t \in [ConfigFileNames -> UNION {OnDisk(n) : n \in ConfigFileNames}] :
        \A n \in ConfigFileNames : t[n] \in OnDisk(n) }

\* Interpreter versions that _DetectRubyInterpreter returns.
SampleVersions ==
    { None, <<>>, PREFERRED_RUBY_VERSION,
      RUBY_VERSION_MAP[<<"2", ".", "0", ".", "0">>],
      <<"2", ".", "2", ".", "4">> }

\* Entrypoints that Fingerprint passes to the configurator.
SampleChosenEntrypoints(appinfo) ==
    IF HasConfiguredEntrypoint(appinfo) THEN {ConfiguredEntrypoint(appinfo)}
    ELSE { ChooseEntrypointResult(TRUE, r, d).entrypoint :
             r \in {x \in SampleResponses : Strip(x) # <<>>}, d \in {<<>>} }
         \cup {ENTRYPOINT_PUMA}

\* The configurators that Fingerprint returns, and the calls of their
\* methods on every tree, up to MaxCalls.
InitRender ==
    /\ pc = "returned"
    /\ params \in [appinfo : {NoAppinfo, Appinfo("ruby", None), Appinfo("custom", None),
                              Appinfo("ruby", <<" ", ".", "/", "r", "u", "n", " ", "-", "p",
                                                " ", "8", "0", "8", "0", " ">>)},
                   custom : BOOLEAN, deploy : BOOLEAN]
    /\ env = ("Gemfile" :> TRUE)
    /\ ran = <<>>
    /\ prompts = <<>>
    /\ log = <<>>
    /\ bundler_available = TRUE
    /\ gems \in {<<>>, <<GemRgeo>>, <<GemRails, GemPuma>>}
    /\ packages = DetectNeededPackages(gems)
    /\ ruby_version \in SampleVersions
    /\ default_entrypoint = None
    /\ entrypoint \in SampleChosenEntrypoints(params.appinfo)
    /\ outcome = "returned"
    /\ error = NoError
    /\ configurator =
            [made |-> TRUE, params |-> params, ruby_version |-> ruby_version,
             entrypoint |-> entrypoint, packages |-> packages,
             notify |-> NotifyChannel(params.deploy)]
    /\ dockerfile = <<>>
    /\ files \in SampleTrees
    /\ written = <<>>
    /\ results = <<>>
    /\ budget \in 1..MaxCalls
    /\ NoCommand

SpecRender == InitRender /\ [][GenerateConfigs \/ GenerateConfigData]_vars

\* ------------------------------------------------------------ properties

\* The appinfo of the run specifies a non-empty entrypoint.
EntrypointConfigured ==
    params.appinfo.present /\ params.appinfo.entrypoint \notin {None, <<>>}

Logged(text) == \E i \in DOMAIN log : log[i].text = text

LoggedWith(text, arg) == \E i \in DOMAIN log : log[i].text = text /\ log[i].arg = arg

Times(prompt) == Cardinality({i \in DOMAIN prompts : prompts[i].prompt = prompt})

\* e is r without its leading and its trailing whitespace.
IsTrimOf(e, r) ==
    /\ e # <<>> => ~IsSpace(e[1]) /\ ~IsSpace(e[Len(e)])
    /\ \E i \in 0..(Len(r) - Len(e)) :
          /\ SubSeq(r, i + 1, i + Len(e)) = e
          /\ \A k \in 1..i : IsSpace(r[k])
          /\ \A k \in (i + Len(e) + 1)..Len(r) : IsSpace(r[k])

TrimOf(r) ==
    CHOOSE e \in {SubSeq(r, i, j) : i \in 1..(Len(r) + 1), j \in 0..Len(r)} : IsTrimOf(e, r)

\* v has the shape X.Y or X.Y.Z of numbers.
IsVersionShape(v) ==
    /\ v # <<>>
    /\ \A k \in DOMAIN v : IsDigit(v[k]) \/ v[k] = "."
    /\ IsDigit(v[1]) /\ IsDigit(v[Len(v)])
    /\ \A k \in 1..(Len(v) - 1) : ~(v[k] = "." /\ v[k + 1] = ".")
    /\ Cardinality({k \in DOMAIN v : v[k] = "."}) \in {1, 2}

\* The version a platform output 'ruby X.Y[.Z]...' requests: the longest
\* text of that shape after 'ruby ', or None when the output has none or
\* starts with 'No '.
RequestedVersion(out) ==
    LET rest == SubSeq(out, Len(RubyPrefix) + 1, Len(out))
        ends == {k \in 1..Len(rest) : IsVersionShape(SubSeq(rest, 1, k))}
    IN  IF StartsWith(out, RubyPrefix) /\ ends # {}
        THEN SubSeq(rest, 1, MaxOf(ends))
        ELSE None

\* The platform output the run read, once 'bundle platform --ruby' ran well.
PlatformRead ==
    Known("bundle platform --ruby") /\ env["bundle platform --ruby"].ok

\* The run took the interpreter version from the platform output.
VersionFromPlatform ==
    PlatformRead /\ RequestedVersion(env["bundle platform --ruby"].out) # None

\* The version the table gives for the platform output the run read.
TableVersion ==
    LET v == RequestedVersion(env["bundle platform --ruby"].out)
    IN  IF v \in DOMAIN RUBY_VERSION_MAP THEN RUBY_VERSION_MAP[v] ELSE v

\* C1: when Fingerprint returns a configurator for an appinfo that specifies
\* a non-empty entrypoint, the configurator's entrypoint is that value
\* exactly: not stripped, no detected default, no user response.
C1_ConfiguredEntrypointVerbatim ==
    (outcome = "returned" /\ EntrypointConfigured)
        => /\ configurator.made
           /\ configurator.entrypoint = params.appinfo.entrypoint
           /\ default_entrypoint = None
           /\ ~Known("PromptResponse")

\* A run returned the configured entrypoint with its surrounding blanks
\* although puma is a gem of the bundle and prompting is available.
C1_Witness ==
    /\ outcome = "returned"
    /\ params.appinfo.entrypoint
         = <<" ", ".", "/", "r", "u", "n", " ", "-", "p", " ", "8", "0", "8", "0", " ">>
    /\ configurator.entrypoint = params.appinfo.entrypoint
    /\ GemPuma \in Range(gems)
    /\ Known("CanPrompt") /\ env["CanPrompt"]

\* C2 as claimed: in a run whose appinfo specifies an entrypoint no prompt
\* of any kind is invoked.
C2_NoPromptAtAll == EntrypointConfigured => prompts = <<>>

\* C2 as amended: in a run whose appinfo specifies an entrypoint the
\* entrypoint question is never asked; the yes/no confirmation is asked at
\* most once, and exactly when the declared runtime is not 'ruby', the
\* Gemfile exists and prompting is available.
C2_OnlyTheConfirmation ==
    EntrypointConfigured
        => /\ Times("PromptResponse") = 0
           /\ Len(prompts) <= 1
           /\ prompts # <<>>
                => /\ params.appinfo.runtime # "ruby"
                   /\ Known("Gemfile") /\ env["Gemfile"]
                   /\ Known("CanPrompt") /\ env["CanPrompt"]
           /\ ( /\ pc # "check_runtime"
                /\ params.appinfo.runtime # "ruby"
                /\ Known("Gemfile") /\ env["Gemfile"]
                /\ Known("CanPrompt") /\ env["CanPrompt"] )
                => prompts = <<Asked("PromptContinue", <<>>)>>

\* A run for runtime: custom with an entrypoint was confirmed by the user
\* and returned a configurator.
C2_Witness ==
    /\ EntrypointConfigured
    /\ params.appinfo.runtime = "custom"
    /\ prompts = <<Asked("PromptContinue", <<>>)>>
    /\ outcome = "returned"

\* C3: every configurator Fingerprint returns carries a non-empty
\* entrypoint; Fingerprint raises rather than return an empty one.
C3_EntrypointNeverEmpty ==
    /\ outcome = "returned"
         => /\ configurator.made
            /\ configurator.entrypoint # None
            /\ configurator.entrypoint # <<>>
            /\ Len(configurator.entrypoint) > 0
    /\ configurator.made => outcome = "returned"

\* A run returned the default after the user answered with blanks only.
C3_Witness ==
    /\ outcome = "returned"
    /\ Known("PromptResponse")
    /\ env["PromptResponse"] = <<" ", "\n">>
    /\ configurator.entrypoint = ENTRYPOINT_RACKUP

\* The facts of C4: prompting unavailable, no configured entrypoint, no
\* Procfile, neither puma nor unicorn a gem, no config.ru.
C4_Case ==
    /\ Known("CanPrompt") /\ ~env["CanPrompt"]
    /\ ~EntrypointConfigured
    /\ Known("Procfile") /\ ~env["Procfile"]
    /\ Known("config.ru") /\ ~env["config.ru"]
    /\ GemPuma \notin Range(gems)
    /\ GemUnicorn \notin Range(gems)

\* C4: with prompting unavailable, no configured entrypoint and no default
\* to compute, Fingerprint raises a RubyConfigError and returns no
\* configurator.
C4_NonInteractiveNoDefaultRaises ==
    C4_Case
        => /\ ~configurator.made
           /\ outcome # "returned"
           /\ pc # "choose_entrypoint"
                => /\ outcome = "raised"
                   /\ error.class = "RubyConfigError"
                   /\ pc = "done"

\* A run without prompting and without a default raised at the entrypoint.
C4_Witness ==
    /\ C4_Case
    /\ default_entrypoint = <<>>
    /\ outcome = "raised"
    /\ error.message = "gcloud is not running interactively and cannot ask for the entrypoint"

\* C5: _DetectDefaultEntrypoint takes the first of: Procfile gives foreman,
\* puma gives puma, unicorn gives unicorn, config.ru gives rackup, else ''.
C5_DefaultEntrypointPriority ==
    (pc = "choose_entrypoint")
        => LET procfile  == env["Procfile"]
               puma      == \E i \in DOMAIN gems : gems[i] = GemPuma
               unicorn   == \E i \in DOMAIN gems : gems[i] = GemUnicorn
               config_ru == env["config.ru"]
           IN  /\ procfile => default_entrypoint = ENTRYPOINT_FOREMAN
               /\ (~procfile /\ puma) => default_entrypoint = ENTRYPOINT_PUMA
               /\ (~procfile /\ ~puma /\ unicorn) => default_entrypoint = ENTRYPOINT_UNICORN
               /\ (~procfile /\ ~puma /\ ~unicorn /\ config_ru)
                    => default_entrypoint = ENTRYPOINT_RACKUP
               /\ (~procfile /\ ~puma /\ ~unicorn /\ ~config_ru)
                    => default_entrypoint = <<>>

\* puma won over a unicorn listed before it and over config.ru.
C5_Witness ==
    /\ pc = "choose_entrypoint"
    /\ ~env["Procfile"]
    /\ env["config.ru"]
    /\ gems = <<GemUnicorn, GemPuma>>
    /\ default_entrypoint = ENTRYPOINT_PUMA

\* C6: with prompting available and no configured entrypoint,
\* _ChooseEntrypoint asks once and takes the stripped response if it is
\* non-empty, else the default, and raises when both are empty.
C6_InteractiveChoice ==
    /\ ~Known("PromptResponse") => Times("PromptResponse") = 0
    /\ ((pc = "return" \/ outcome = "returned") /\ ~EntrypointConfigured)
         => Known("CanPrompt") /\ env["CanPrompt"] /\ Known("PromptResponse")
    /\ Known("PromptResponse")
         => LET response == env["PromptResponse"]
                blank    == IsTrimOf(<<>>, response)
            IN  /\ env["CanPrompt"] /\ ~EntrypointConfigured
                /\ Times("PromptResponse") = 1
                /\ ~blank
                     => /\ entrypoint \notin {None, <<>>}
                        /\ IsTrimOf(entrypoint, response)
                        /\ outcome # "raised"
                /\ (blank /\ default_entrypoint # <<>>)
                     => entrypoint = default_entrypoint /\ outcome # "raised"
                /\ (blank /\ default_entrypoint = <<>>)
                     => /\ outcome = "raised"
                        /\ error = [class |-> "RubyConfigError",
                                    message |-> "Entrypoint command is required."]
                        /\ ~configurator.made

\* The user's answer ' my app ' replaced the puma default, stripped.
C6_Witness ==
    /\ Known("PromptResponse")
    /\ env["PromptResponse"] = <<" ", "m", "y", " ", "a", "p", "p", " ", "\n">>
    /\ default_entrypoint = ENTRYPOINT_PUMA
    /\ outcome = "returned"
    /\ configurator.entrypoint = <<"m", "y", " ", "a", "p", "p">>

\* The contents of .ruby-version the run read yield a value.
VersionFileRead == Known(".ruby-version") /\ Truthy(env[".ruby-version"])

\* C7 as claimed: whichever source the version came from, the version in
\* the Dockerfile is the one the table gives for it: the mapped patch level
\* for a key of RUBY_VERSION_MAP, the version itself otherwise.
C7_AlwaysNormalized ==
    (dockerfile # <<>> /\ (VersionFromPlatform \/ VersionFileRead))
        => LET detected == IF VersionFromPlatform
                           THEN RequestedVersion(env["bundle platform --ruby"].out)
                           ELSE TrimOf(env[".ruby-version"])
           IN  detected # <<>>
                 => dockerfile[2] = Block("DOCKERFILE_CUSTOM_INTERPRETER",
                                          IF detected \in DOMAIN RUBY_VERSION_MAP
                                          THEN RUBY_VERSION_MAP[detected]
                                          ELSE detected)

\* C7 as amended: a version taken from the platform output of bundler is
\* normalized through the table before it is embedded in the Dockerfile; a
\* version taken from .ruby-version is embedded as the trimmed contents of
\* the file, not normalized.
C7_NormalizedFromBundlerOnly ==
    dockerfile # <<>>
        => /\ VersionFromPlatform
                => dockerfile[2] = Block("DOCKERFILE_CUSTOM_INTERPRETER", TableVersion)
           /\ (~VersionFromPlatform /\ VersionFileRead /\ ~IsTrimOf(<<>>, env[".ruby-version"]))
                => /\ dockerfile[2].template = "DOCKERFILE_CUSTOM_INTERPRETER"
                   /\ IsTrimOf(dockerfile[2].arg, env[".ruby-version"])

\* The Dockerfile pins 2.0.0-p648 for the platform output 'ruby 2.0.0p645'.
C7_Witness ==
    /\ dockerfile # <<>>
    /\ PlatformRead
    /\ env["bundle platform --ruby"].out
         = <<"r", "u", "b", "y", " ", "2", ".", "0", ".", "0", "p", "6", "4", "5", "\n">>
    /\ dockerfile[2] = Block("DOCKERFILE_CUSTOM_INTERPRETER",
                             <<"2", ".", "0", ".", "0", "-", "p", "6", "4", "8">>)

C9_TableLookup ==
    (pc = "detect_packages" /\ VersionFromPlatform)
        => LET out == env["bundle platform --ruby"].out
               V   == RequestedVersion(out)
           IN  /\ V \in DOMAIN RUBY_VERSION_MAP => ruby_version = RUBY_VERSION_MAP[V]
               /\ V \notin DOMAIN RUBY_VERSION_MAP => ruby_version = V
               /\ StartsWith(out, <<"r", "u", "b", "y", " ", "2", ".", "0", ".", "0", "p">>)
                    => ruby_version = <<"2", ".", "0", ".", "0", "-", "p", "6", "4", "8">>

\* 'ruby 2.0.0p645' resolved to 2.0.0-p648.
C9_Witness ==
    /\ pc = "detect_packages"
    /\ PlatformRead
    /\ env["bundle platform --ruby"].out
         = <<"r", "u", "b", "y", " ", "2", ".", "0", ".", "0", "p", "6", "4", "5", "\n">>
    /\ ruby_version = <<"2", ".", "0", ".", "0", "-", "p", "6", "4", "8">>

\* C10: _DetectNeededPackages returns the sorted, duplicate-free union of
\* GEM_PACKAGES[g] over the gems that are keys; other gems add nothing, and
\* reordering or duplicating the gems changes nothing.
C10_SortedUnion ==
    (pc = "resolve_entrypoint")
        => /\ Range(packages)
                = UNION {Range(GEM_PACKAGES[g]) : g \in Range(gems) \cap DOMAIN GEM_PACKAGES}
           /\ \A i, j \in DOMAIN packages : i < j => StrLess(packages[i], packages[j])
           /\ packages = IF GemRgeo \in Range(gems)
                         THEN <<PkgLibgeosDev, PkgLibprojDev>> ELSE <<>>
           /\ \A other \in GemLists :
                 Range(other) = Range(gems) => DetectNeededPackages(other) = packages

\* rgeo listed twice around another gem gave its two packages once, sorted.
C10_Witness ==
    /\ pc = "resolve_entrypoint"
    /\ gems = <<GemRgeo, GemPuma, GemRgeo>>
    /\ packages = <<PkgLibgeosDev, PkgLibprojDev>>

\* The calls the configurator has answered, by method.
CallsOf(op) == {i \in DOMAIN results : results[i].op = op}

\* C11: no step of GenerateConfigs or of GenerateConfigData changes a config
\* file that exists under the root, and each file a step writes was absent
\* before the step.
C11_NeverOverwrites ==
    [][ /\ \A n \in ConfigFileNames : files[n].exists => files'[n] = files[n]
        /\ \A i \in (Len(written) + 1)..Len(written') :
              ~files[written'[i].filename].exists ]_vars

\* GenerateConfigs and then GenerateConfigData ran for a configurator that
\* generates all three files in a tree that had a Dockerfile: app.yaml and
\* .dockerignore were written, and the Dockerfile is the old one.
C11_Witness ==
    /\ Len(results) = 2
    /\ results[1].op = "GenerateConfigs"
    /\ results[2].op = "GenerateConfigData"
    /\ FileNames(results[1].attempted) = ConfigFileNames
    /\ files["Dockerfile"] = Present(OldContents("Dockerfile"))
    /\ [i \in DOMAIN written |-> written[i].filename] = <<"app.yaml", ".dockerignore">>
    /\ files["app.yaml"].exists

NoFilesGenerated == "All config files already exist. No files generated."

\* C12: when GenerateConfigs is called twice in succession, the second call
\* writes nothing, returns False and reports that no file was generated, and
\* no file is written more than once over the calls.
C12_Idempotent ==
    /\ \A i \in 1..(Len(results) - 1) :
          (results[i].op = "GenerateConfigs" /\ results[i + 1].op = "GenerateConfigs")
              => /\ results[i + 1].wrote = <<>>
                 /\ results[i + 1].value = FALSE
    /\ \A n \in ConfigFileNames :
          Cardinality({i \in DOMAIN written : written[i].filename = n}) <= 1
    /\ Cardinality({i \in DOMAIN log : log[i].text = NoFilesGenerated})
         = Cardinality({i \in CallsOf("GenerateConfigs") : ~results[i].value})
    /\ (Len(results) >= 2 /\ results[Len(results)].op = "GenerateConfigs"
                          /\ results[Len(results) - 1].op = "GenerateConfigs")
          => /\ log # <<>>
             /\ log[Len(log)] = Notify(configurator.notify, NoFilesGenerated)

\* GenerateConfigs ran twice in an empty tree: the first call wrote the three
\* files and returned True, the second returned False.
C12_Witness ==
    /\ Len(results) = 2
    /\ results[1].op = "GenerateConfigs" /\ results[2].op = "GenerateConfigs"
    /\ Len(results[1].wrote) = 3 /\ results[1].value
    /\ ~results[2].value
    /\ Len(written) = 3
    /\ Cardinality({i \in DOMAIN log : log[i].text = NoFilesGenerated}) = 1

\* C13: a Fingerprint run that raised returned no configurator, and nothing
\* was generated or written under the root in that run; files are written
\* only after Fingerprint returned a configurator without an error.
C13_FatalErrorWritesNothing ==
    /\ (outcome = "raised" \/ error # NoError)
          => /\ error.class \in ErrorClasses
             /\ ~configurator.made
             /\ results = <<>>
             /\ written = <<>>
             /\ dockerfile = <<>>
             /\ \A n \in DOMAIN files : ~files[n].exists
    /\ (written # <<>> \/ results # <<>>)
          => /\ outcome = "returned"
             /\ configurator.made
             /\ error = NoError

\* The last fatal condition of the pipeline: gems, interpreter and packages
\* were detected for a run with the custom flag and no appinfo, and the
\* empty answer to the entrypoint question raised.
C13_Witness ==
    /\ outcome = "raised"
    /\ error = [class |-> "RubyConfigError", message |-> "Entrypoint command is required."]
    /\ params.custom /\ ~params.appinfo.present
    /\ packages # <<>>
    /\ ruby_version # None
    /\ written = <<>> /\ results = <<>>
    /\ ~configurator.made

\* The run has left the named step of Fingerprint behind, raising or not.
Past(steps) == pc \notin steps

\* The messages of the errors that _ChooseEntrypoint raises.
EntrypointMessages ==
    { "Entrypoint command is required.",
      "gcloud is not running interactively and cannot ask for the entrypoint" }

\* The error of _RunSubprocess for a command.
Unable(cmd) ==
    [class |-> "RubyConfigError",
     message |-> IF cmd = "bundle list" THEN "Unable to run script: [bundle list]"
                 ELSE "Unable to run script: [bundle platform --ruby]"]

\* The command was run and exited with a status other than 0.
Failed(cmd) == Known(cmd) /\ ~env[cmd].ok

\* C14 as claimed: apart from a missing Gemfile and a failed 'bundle check',
\* no failure of a bundler command makes Fingerprint raise: the only other
\* errors are those of the entrypoint.
C14_NoProbeFailureFatal ==
    outcome = "raised"
        => \/ error.class \in {"MissingGemfileError", "StaleBundleError"}
           \/ error.message \in EntrypointMessages

\* C14 amended: a failing 'bundle version' never raises and the run goes on
\* without gems and with the version of .ruby-version or None; output of
\* 'bundle list' or 'bundle platform --ruby' that cannot be parsed never
\* raises; but either of these two commands exiting with a non-zero status,
\* after 'bundle version' and 'bundle check' succeeded, raises RubyConfigError.
C14_OnlyAvailabilityProbeDegrades ==
    /\ \A cmd \in {"bundle list", "bundle platform --ruby"} :
          /\ Failed(cmd) <=> (outcome = "raised" /\ error = Unable(cmd))
          /\ Failed(cmd) => env["bundle version"] /\ env["bundle check"]
    /\ (Known("bundle version") /\ ~env["bundle version"] /\ Past({"check_environment"}))
          => /\ outcome = "raised" => error.message \in EntrypointMessages
             /\ ~bundler_available
             /\ gems = <<>>
             /\ Past({"detect_gems", "detect_interpreter"})
                   => /\ Known(".ruby-version")
                      /\ \/ ruby_version = None
                         \/ IsTrimOf(ruby_version, env[".ruby-version"])
    /\ (PlatformRead /\ ~VersionFromPlatform)
          => /\ outcome = "raised" => error.message \in EntrypointMessages
             /\ Known(".ruby-version")
             /\ \/ ruby_version = None
                \/ IsTrimOf(ruby_version, env[".ruby-version"])

\* 'bundle list' printed text that names no gem and 'bundle platform --ruby'
\* one that names no ruby version, and Fingerprint returned a configurator
\* without gems or version.
C14_Witness ==
    /\ outcome = "returned"
    /\ Known("bundle list") /\ env["bundle list"] = Exit(TRUE, <<>>)
    /\ Known("bundle platform --ruby")
    /\ env["bundle platform --ruby"].out = <<"j", "r", "u", "b", "y", " ", "9", "\n">>
    /\ gems = <<>>
    /\ ruby_version = None

\* The fatal condition that the facts of a raised run show.
FatalCondition ==
    IF Known("Gemfile") /\ ~env["Gemfile"] THEN "missing_gemfile"
    ELSE IF Known("bundle check") /\ ~env["bundle check"] THEN "stale_bundle"
    ELSE IF Failed("bundle list") \/ Failed("bundle platform --ruby") THEN "subprocess_failed"
    ELSE IF Known("CanPrompt") /\ env["CanPrompt"] THEN "missing_entrypoint"
    ELSE "non_interactive"

\* C15: the class of the error a run raised is raised for no other fatal
\* condition, so that the class tells the caller which condition occurred.
C15_DistinctErrorKinds ==
    outcome = "raised"
        => /\ error.class = ErrorKind(FatalCondition)
           /\ \A c \in FatalConditions \ {FatalCondition} : ErrorKind(c) # error.class

\* _CheckForRubyRuntime returned; it returned False exactly when Fingerprint
\* returned None.
RuntimeChecked == pc # "check_runtime"

TreatedAsRuby == RuntimeChecked /\ outcome # "none"

\* C16: _CheckForRubyRuntime returns True for an appinfo whose effective
\* runtime is 'ruby', having read nothing of the tree and asked nothing;
\* otherwise False when there is no Gemfile, without asking and whether or
\* not it could ask; otherwise the answer to the yes/no question when it can
\* prompt, and True when it cannot.
C16_CheckForRubyRuntime ==
    RuntimeChecked =>
        IF params.appinfo.present /\ params.appinfo.runtime = "ruby"
        THEN /\ TreatedAsRuby
             /\ Times("PromptContinue") = 0
             /\ ~Known("PromptContinue")
             /\ pc = "check_environment" => env = <<>> /\ prompts = <<>> /\ log = <<>>
        ELSE /\ Known("Gemfile")
             /\ IF ~env["Gemfile"]
                THEN /\ ~TreatedAsRuby
                     /\ prompts = <<>>
                     /\ ~Known("CanPrompt")
                ELSE /\ Known("CanPrompt")
                     /\ IF env["CanPrompt"]
                        THEN /\ Times("PromptContinue") = 1
                             /\ TreatedAsRuby <=> env["PromptContinue"]
                        ELSE /\ TreatedAsRuby
                             /\ Times("PromptContinue") = 0
                             /\ ~Known("PromptContinue")

\* An app.yaml of runtime 'custom' in a tree with a Gemfile: the user was
\* asked and said no, and Fingerprint returned None.
C16_Witness ==
    /\ params.appinfo.present /\ params.appinfo.runtime = "custom"
    /\ Known("Gemfile") /\ env["Gemfile"]
    /\ Known("PromptContinue") /\ ~env["PromptContinue"]
    /\ outcome = "none"
    /\ Times("PromptContinue") = 1

\* _CheckEnvironment ended, by raising or by returning.
EnvironmentDone == pc \notin {"check_runtime", "check_environment"} /\ outcome # "none"

GemfileAbsent == Known("Gemfile") /\ ~env["Gemfile"]

\* Bundler runs and 'bundle check' fails.
BundleStale ==
    /\ Known("bundle version") /\ env["bundle version"]
    /\ Known("bundle check") /\ ~env["bundle check"]

\* C17: _CheckEnvironment raises MissingGemfileError iff there is no
\* Gemfile, which Fingerprint reaches only for an appinfo of runtime 'ruby';
\* it raises StaleBundleError iff there is a Gemfile, 'bundle version'
\* succeeds and 'bundle check' fails; otherwise it returns whether
\* 'bundle version' succeeded, whether or not there is a Gemfile.lock.
C17_CheckEnvironmentOutcomes ==
    EnvironmentDone =>
        /\ Known("Gemfile")
        /\ error.class = "MissingGemfileError" <=> GemfileAbsent
        /\ GemfileAbsent => params.appinfo.present /\ params.appinfo.runtime = "ruby"
        /\ error.class = "StaleBundleError" <=> (~GemfileAbsent /\ BundleStale)
        /\ (~GemfileAbsent /\ ~BundleStale)
              => /\ Known("bundle version") /\ Known("Gemfile.lock")
                 /\ bundler_available = env["bundle version"]
                 /\ pc = "detect_gems" => outcome = "running" /\ error = NoError

\* A tree with a Gemfile and no Gemfile.lock in which bundler runs and
\* 'bundle check' passes: _CheckEnvironment printed the notice and returned
\* True.
C17_Witness ==
    /\ pc = "detect_gems"
    /\ Known("Gemfile.lock") /\ ~env["Gemfile.lock"]
    /\ bundler_available
    /\ Logged("NOTICE: We could not find a Gemfile.lock")
    /\ error = NoError

\* The tree has a Gemfile and 'bundle version' failed.
BundlerUnavailable ==
    /\ Known("Gemfile") /\ env["Gemfile"]
    /\ Known("bundle version") /\ ~env["bundle version"]

\* C18: in a tree with a Gemfile where 'bundle version' fails, with or
\* without a Gemfile.lock, _CheckEnvironment returns False without raising
\* and prints the notice once, no other bundler command runs, the gems and
\* the packages are empty, and the interpreter version is the trimmed
\* contents of .ruby-version, or None without such contents.
C18_BundlerUnavailable ==
    BundlerUnavailable =>
        /\ ~bundler_available
        /\ ran = <<"bundle version">>
        /\ ~Known("bundle check") /\ ~Known("bundle list") /\ ~Known("bundle platform --ruby")
        /\ Cardinality({i \in DOMAIN log :
                            log[i] = Status("NOTICE: gcloud could not run bundler", <<>>)}) = 1
        /\ ~Logged("NOTICE: We could not find a Gemfile.lock")
        /\ error.class \notin {"MissingGemfileError", "StaleBundleError"}
        /\ outcome = "raised" => error.message \in EntrypointMessages
        /\ gems = <<>>
        /\ packages = <<>>
        /\ Past({"detect_gems", "detect_interpreter"})
              => /\ Known(".ruby-version")
                 /\ IF env[".ruby-version"] \in {None, <<>>}
                    THEN ruby_version = None
                    ELSE IsTrimOf(ruby_version, env[".ruby-version"])
        /\ configurator.made
              => /\ configurator.packages = <<>>
                 /\ configurator.ruby_version = ruby_version

\* Fingerprint returned a configurator for a tree with a Gemfile, no
\* Gemfile.lock and a .ruby-version of 2.2.4 where bundler does not run.
C18_Witness ==
    /\ BundlerUnavailable
    /\ ~env["Gemfile.lock"]
    /\ outcome = "returned"
    /\ env[".ruby-version"] = <<"2", ".", "2", ".", "4">>
    /\ configurator.ruby_version = <<"2", ".", "2", ".", "4">>
    /\ configurator.packages = <<>>

\* The file of that name among the files a call generated.
Attempted(result, filename) ==
    result.attempted[CHOOSE i \in DOMAIN result.attempted :
                        result.attempted[i].filename = filename]

\* The value of the line 'runtime: ...' of the text of an app.yaml.
RuntimeToken(text) ==
    LET lines == SplitLines(text)
        key == <<"r", "u", "n", "t", "i", "m", "e", ":", " ">>
        at == CHOOSE i \in DOMAIN lines : StartsWith(lines[i], key)
    IN  SubSeq(lines[at], Len(key) + 1, Len(lines[at]))

\* C19: GenerateConfigs generates app.yaml iff there is no appinfo, and the
\* Dockerfile and .dockerignore, both or neither, iff the custom or the
\* deploy flag is set, and nothing else; the runtime of the app.yaml is
\* 'custom' iff the custom flag is set and 'ruby' otherwise.
C19_ArtifactSet ==
    \A i \in CallsOf("GenerateConfigs") :
        LET names == FileNames(results[i].attempted)
        IN  /\ names \subseteq ConfigFileNames
            /\ Len(results[i].attempted) = Cardinality(names)
            /\ "app.yaml" \in names <=> ~params.appinfo.present
            /\ "Dockerfile" \in names <=> (params.custom \/ params.deploy)
            /\ ".dockerignore" \in names <=> "Dockerfile" \in names
            /\ "app.yaml" \in names
                  => RuntimeToken(Attempted(results[i], "app.yaml").contents)
                        = IF params.custom THEN <<"c", "u", "s", "t", "o", "m">>
                          ELSE <<"r", "u", "b", "y">>

\* GenerateConfigs ran with the deploy flag alone and no appinfo: it
\* generated the three files, and the app.yaml is of runtime 'ruby'.
C19_Witness ==
    /\ results # <<>>
    /\ results[1].op = "GenerateConfigs"
    /\ params.deploy /\ ~params.custom /\ ~params.appinfo.present
    /\ FileNames(results[1].attempted) = ConfigFileNames
    /\ RuntimeToken(Attempted(results[1], "app.yaml").contents) = <<"r", "u", "b", "y">>

RECURSIVE Words(_)
\* The words of a text that single blanks separate.
Words(text) ==
    IF \A k \in DOMAIN text : text[k] # " " THEN <<text>>
    ELSE LET at == MinOf({k \in DOMAIN text : text[k] = " "})
         IN  <<SubSeq(text, 1, at - 1)>> \o Words(SubSeq(text, at + 1, Len(text)))

\* C20: a generated Dockerfile is five blocks in this order: the header; the
\* block that installs and pins the interpreter version iff there is a
\* version (neither None nor empty), else the default-interpreter comment,
\* which pins nothing; the apt-get block listing the packages iff there are
\* packages, else the commented-out placeholder; the gem-install block; the
\* entrypoint block with the entrypoint.
C20_DockerfileSections ==
    dockerfile # <<>> =>
        /\ Len(dockerfile) = 5
        /\ dockerfile[1] = Block("DOCKERFILE_HEADER", <<>>)
        /\ dockerfile[2] = IF configurator.ruby_version \notin {None, <<>>}
                           THEN Block("DOCKERFILE_CUSTOM_INTERPRETER", configurator.ruby_version)
                           ELSE Block("DOCKERFILE_DEFAULT_INTERPRETER", <<>>)
        /\ IF configurator.packages # <<>>
           THEN /\ dockerfile[3].template = "DOCKERFILE_MORE_PACKAGES"
                /\ Words(dockerfile[3].arg) = configurator.packages
           ELSE dockerfile[3] = Block("DOCKERFILE_NO_MORE_PACKAGES", <<>>)
        /\ dockerfile[4] = Block("DOCKERFILE_GEM_INSTALL", <<>>)
        /\ dockerfile[5] = Block("DOCKERFILE_ENTRYPOINT", configurator.entrypoint)
        /\ \E i \in DOMAIN results :
              /\ "Dockerfile" \in FileNames(results[i].attempted)
              /\ Attempted(results[i], "Dockerfile").contents = dockerfile

\* A Dockerfile generated for a configurator without a version and with the
\* packages of rgeo: the default-interpreter block and the apt-get block.
C20_Witness ==
    /\ dockerfile # <<>>
    /\ configurator.ruby_version = None
    /\ Len(configurator.packages) = 2
    /\ dockerfile[2].template = "DOCKERFILE_DEFAULT_INTERPRETER"
    /\ dockerfile[3].template = "DOCKERFILE_MORE_PACKAGES"
    /\ files["Dockerfile"] = Present(dockerfile)

\* The call that a step adds to the calls answered.
NewCall(op) ==
    /\ Len(results') = Len(results) + 1
    /\ results'[Len(results')].op = op

\* C21: a call of GenerateConfigs returns True iff it changed a file under
\* the root, and it sends the notice 'All config files already exist. No
\* files generated.' iff it changed none; the notice goes to log.info when
\* deploying and to log.status.Print otherwise.
C21_ReturnsWhetherWritten ==
    [][ NewCall("GenerateConfigs")
            => /\ results'[Len(results')].value <=> (files' # files)
               /\ Len(written') > Len(written) <=> (files' # files)
               /\ IF files' = files
                  THEN log' = Append(log, [channel |-> IF params.deploy THEN "info" ELSE "status",
                                           text |-> NoFilesGenerated, arg |-> <<>>])
                  ELSE log' = log ]_vars

\* In deploy mode GenerateConfigs found the Dockerfile and the .dockerignore in
\* the tree, wrote nothing, returned False and sent the notice to log.info.
C21_Witness ==
    /\ Len(results) = 1
    /\ results[1].op = "GenerateConfigs"
    /\ params.deploy
    /\ Len(results[1].attempted) = 2
    /\ ~results[1].value
    /\ written = <<>>
    /\ log = <<[channel |-> "info", text |-> NoFilesGenerated, arg |-> <<>>]>>

\* How often the message was written, to either channel.
TimesLogged(text) == Cardinality({i \in DOMAIN log : log[i].text = text})

\* There is no Gemfile.lock, bundler runs and 'bundle check' passes.
LockMissing ==
    /\ Known("Gemfile.lock") /\ ~env["Gemfile.lock"]
    /\ Known("bundle version") /\ env["bundle version"]
    /\ Known("bundle check") /\ env["bundle check"]

\* 'bundle platform --ruby' printed text that neither starts with 'No ' nor
\* requests a version.
PlatformUnrecognized ==
    /\ PlatformRead
    /\ ~StartsWith(env["bundle platform --ruby"].out, <<"N", "o", " ">>)
    /\ RequestedVersion(env["bundle platform --ruby"].out) = None

\* The gems of the bundle that GEM_PACKAGES does not name.
UnknownGems == {gems[i] : i \in DOMAIN gems} \ {<<"r", "g", "e", "o">>}

\* _DetectNeededPackages returned in this run.
PackagesDetected ==
    /\ pc \notin {"check_runtime", "check_environment", "detect_gems",
                  "detect_interpreter", "detect_packages"}
    /\ outcome # "none"
    /\ outcome = "raised" => error.message \in EntrypointMessages

\* C22 as claimed: each non-fatal condition that occurs is logged exactly
\* once: bundler unavailable, Gemfile.lock missing with bundler available,
\* unrecognized platform text, and a gem that the package mapping does not
\* name.
C22_EachConditionLoggedOnce ==
    /\ BundlerUnavailable => TimesLogged("NOTICE: gcloud could not run bundler") = 1
    /\ LockMissing => TimesLogged("NOTICE: We could not find a Gemfile.lock") = 1
    /\ PlatformUnrecognized => TimesLogged("Unrecognized platform in Gemfile: [{0}]") = 1
    /\ PackagesDetected
          => \A g \in UnknownGems : Cardinality({i \in DOMAIN log : log[i].arg = g}) = 1

\* C22 amended: the notices for bundler unavailable, for a missing
\* Gemfile.lock when bundler runs and 'bundle check' passes, and for an
\* unrecognized platform text are each written exactly once when the
\* condition occurs and never otherwise, and none of the three raises; a gem
\* that GEM_PACKAGES does not name is skipped without any message and adds
\* no package.
C22_NoticesOnceUnknownGemsSilent ==
    /\ TimesLogged("NOTICE: gcloud could not run bundler")
         = IF BundlerUnavailable THEN 1 ELSE 0
    /\ TimesLogged("NOTICE: We could not find a Gemfile.lock")
         = IF LockMissing THEN 1 ELSE 0
    /\ TimesLogged("Unrecognized platform in Gemfile: [{0}]")
         = IF PlatformUnrecognized THEN 1 ELSE 0
    /\ PlatformUnrecognized
          => LoggedWith("Unrecognized platform in Gemfile: [{0}]",
                        env["bundle platform --ruby"].out)
    /\ (BundlerUnavailable \/ LockMissing)
          => error.class \notin {"MissingGemfileError", "StaleBundleError"}
    /\ PlatformUnrecognized => error # Unable("bundle platform --ruby")
    /\ \A g \in UnknownGems : \A i \in DOMAIN log : log[i].arg # g
    /\ PackagesDetected
          => (packages = <<>> <=> UnknownGems = {gems[i] : i \in DOMAIN gems})

\* A run with bundler and without Gemfile.lock whose bundle has rails, puma
\* and unicorn and whose platform is jruby returned a configurator: one
\* notice for the lock, one for the platform, none for the gems.
C22_Witness ==
    /\ outcome = "returned"
    /\ LockMissing
    /\ PlatformUnrecognized
    /\ Cardinality(UnknownGems) = 3
    /\ TimesLogged("NOTICE: We could not find a Gemfile.lock") = 1
    /\ TimesLogged("Unrecognized platform in Gemfile: [{0}]") = 1
    /\ packages = <<>>


\* One line 'key: value' of an app.yaml: the key before the first colon and
\* the value after it, without the blanks around the value.
KeyValue(line) ==
    LET at == MinOf({k \in DOMAIN line : line[k] = ":"})
    IN  [key |-> SubSeq(line, 1, at - 1),
         value |-> Strip(SubSeq(line, at + 1, Len(line)))]

\* The key-value lines of the text of an app.yaml, parsed back.
ParseAppYaml(text) ==
    LET lines == SplitLines(text)
    IN  { KeyValue(lines[i]) :
            i \in {k \in DOMAIN lines : \E j \in DOMAIN lines[k] : lines[k][j] = ":"} }

C25_NonInteractiveNeverUsesDefault ==
    /\ Known("CanPrompt") /\ ~env["CanPrompt"]
    /\ ~EntrypointConfigured
    /\ Known("Procfile")
    => /\ ~configurator.made
       /\ outcome # "returned"
       /\ entrypoint = None
       /\ results = <<>>
       /\ pc # "choose_entrypoint"
            => /\ outcome = "raised"
               /\ error = [class |-> "RubyConfigError",
                           message |-> "gcloud is not running interactively and cannot ask for the entrypoint"]
               /\ pc = "done"

\* A run without a console computed the puma default and raised all the same.
C25_Witness ==
    /\ Known("CanPrompt") /\ ~env["CanPrompt"]
    /\ ~EntrypointConfigured
    /\ default_entrypoint = ENTRYPOINT_PUMA
    /\ outcome = "raised"
    /\ error.message = "gcloud is not running interactively and cannot ask for the entrypoint"
    /\ entrypoint = None
    /\ ~configurator.made

\* _CheckForRubyRuntime returned True, told from what the run has read.
RuntimeAccepted ==
    \/ params.appinfo.present /\ params.appinfo.runtime = "ruby"
    \/ /\ Known("Gemfile") /\ env["Gemfile"]
       /\ Known("CanPrompt")
       /\ env["CanPrompt"] => Known("PromptContinue") /\ env["PromptContinue"]

\* The user answered no to 'Proceed to configure deployment for Ruby?'.
Declined == Known("PromptContinue") /\ ~env["PromptContinue"]

EntrypointAsked == \E i \in DOMAIN prompts : prompts[i].prompt = "PromptResponse"

\* The subprocess at a position of ran ran after a 'bundle version' that
\* exited with 0.
AfterBundleVersion(i) ==
    /\ i > 1
    /\ ran[1] = "bundle version"
    /\ Known("bundle version") /\ env["bundle version"]

\* C26: the stages of a Fingerprint run are ordered. A subprocess is started
\* only when the runtime check returned True; after the user declined, no
\* subprocess ran, no entrypoint was asked, no file was written and the run
\* returns None; 'bundle check', 'bundle list' and 'bundle platform --ruby'
\* run only after 'bundle version' succeeded; the entrypoint question is
\* asked only when the environment check, the gem detection and the
\* interpreter detection are done and none of them raised.
C26_StagesOrdered ==
    /\ [](/\ ran # <<>> => RuntimeAccepted
          /\ Declined => /\ ran = <<>>
                         /\ ~EntrypointAsked
                         /\ written = <<>> /\ results = <<>>
                         /\ ~configurator.made
                         /\ pc = "done" /\ outcome = "none"
          /\ \A i \in DOMAIN ran :
                ran[i] \in {"bundle check", "bundle list", "bundle platform --ruby"}
                    => AfterBundleVersion(i))
    /\ [][ Len(prompts') > Len(prompts) /\ prompts'[Len(prompts')].prompt = "PromptResponse"
             => /\ pc = "choose_entrypoint"
                /\ outcome = "running" /\ error = NoError
                /\ ran' = ran
                /\ ran = IF bundler_available
                         THEN <<"bundle version", "bundle check", "bundle list",
                                "bundle platform --ruby">>
                         ELSE <<"bundle version">>
                /\ ruby_version' = ruby_version /\ gems' = gems ]_vars

\* A run in which the user accepted, the four bundler commands ran in
\* order and the entrypoint was asked after them.
C26_Witness ==
    /\ Known("PromptContinue") /\ env["PromptContinue"]
    /\ ran = <<"bundle version", "bundle check", "bundle list", "bundle platform --ruby">>
    /\ EntrypointAsked
    /\ outcome = "returned"

\* The text of the announcement of a version taken from .ruby-version.
UsingFileVersion == "Using Ruby {0} as requested in the .ruby-version file"

\* C27: _DetectRubyInterpreter returns None or a non-empty version, never the
\* empty string, whatever .ruby-version holds; a version that it announces as
\* requested in the .ruby-version file is non-empty, and the Dockerfile
\* generated from it pins that version.
C27_VersionNeverEmpty ==
    /\ Past({"check_runtime", "check_environment", "detect_gems", "detect_interpreter"})
            /\ outcome \in {"running", "returned"}
         => ruby_version = None \/ ruby_version # <<>>
    /\ \A i \in DOMAIN log :
          log[i].text = UsingFileVersion
             => /\ log[i].arg # <<>>
                /\ log[i].arg = ruby_version
                /\ dockerfile # <<>>
                     => dockerfile[2] = Block("DOCKERFILE_CUSTOM_INTERPRETER", log[i].arg)

\* The names of a list of files, in order.
NamesInOrder(list) == [i \in DOMAIN list |-> list[i].filename]

\* C28: a call of GenerateConfigData changes app.yaml under the root iff
\* there is no appinfo and no app.yaml yet, and never the Dockerfile or the
\* .dockerignore; the list it returns has no app.yaml, is empty unless the
\* custom or the deploy flag is set, and else holds, in this order, the
\* Dockerfile and the .dockerignore that are not under the root.
C28_ConfigDataFrame ==
    [][ NewCall("GenerateConfigData")
          => LET returned == results'[Len(results')].data
             IN  /\ files'["Dockerfile"] = files["Dockerfile"]
                 /\ files'[".dockerignore"] = files[".dockerignore"]
                 /\ files'["app.yaml"] # files["app.yaml"]
                       <=> ~params.appinfo.present /\ ~files["app.yaml"].exists
                 /\ \A i \in (Len(written) + 1)..Len(written') :
                       written'[i].filename = "app.yaml"
                 /\ Len(written') > Len(written) <=> files' # files
                 /\ NamesInOrder(returned)
                       = IF params.custom \/ params.deploy
                         THEN SelectSeq(<<"Dockerfile", ".dockerignore">>,
                                        LAMBDA n : ~files[n].exists)
                         ELSE <<>> ]_vars

\* In deploy mode and without appinfo GenerateConfigData found a Dockerfile
\* in the tree: it wrote the app.yaml and returned the .dockerignore alone.
C28_Witness ==
    /\ Len(results) = 1
    /\ results[1].op = "GenerateConfigData"
    /\ params.deploy /\ ~params.custom /\ ~params.appinfo.present
    /\ NamesInOrder(written) = <<"app.yaml">>
    /\ NamesInOrder(results[1].data) = <<".dockerignore">>
    /\ files["Dockerfile"] = Present(OldContents("Dockerfile"))

\* ---------------------------------------------------------------------
\* gcloud compute target-pools create (surface/compute/target_pools/create.py)

\* None, as the value of an argument that is a plain name.
Missing == "<None>"

\* --failover-ratio (type=float): None, or the float in hundredths.
NoRatio == [set |-> FALSE, hundredths |-> 0]

Ratio(hundredths) == [set |-> TRUE, hundredths |-> hundredths]

\* Python's truth value of a name or None, and of a float or None.
GivenName(name) == name # Missing /\ name # ""

GivenRatio(ratio) == ratio.set /\ ratio.hundredths # 0

SampleRatios == {NoRatio} \cup {Ratio(h) : h \in {-50, 0, 40, 100, 150}}

\* The arguments that the parser of Create.Args hands to CreateRequests.
SamplePoolArgs ==
    [name : {"pool-a"}, region : {"us-central1"},
     backup_pool : {Missing, "pool-b"}, backup_pool_region : {Missing},
     failover_ratio : SampleRatios, description : {Missing, "main pool"},
     health_check : {Missing, "hc-old"}, http_health_check : {Missing, "hc"},
     session_affinity : {"NONE", "CLIENT_IP"}]

ToolException(message) == [class |-> "ToolException", message |-> message]

\* The checks of lines 125-134: the exception that CreateRequests raises
\* for the failover arguments, or NoError.
FailoverError(a) ==
    IF \/ GivenName(a.backup_pool) /\ ~GivenRatio(a.failover_ratio)
       \/ GivenRatio(a.failover_ratio) /\ ~GivenName(a.backup_pool)
    THEN ToolException("Either both or neither of [--failover-ratio] and [--backup-pool] must be provided.")
    ELSE IF /\ a.failover_ratio.set
            /\ (a.failover_ratio.hundredths < 0 \/ a.failover_ratio.hundredths > 100)
    THEN ToolException("[--failover-ratio] must be a number between 0 and 1, inclusive.")
    ELSE NoError

\* ResolveAsResource(...).SelfLink()
SelfLink(collection, region, name) ==
    [collection |-> collection, region |-> region, name |-> name]

\* The arguments after lines 136-139 and 154-155.
ResolvedPoolArgs(a) ==
    LET checked == IF GivenName(a.health_check)
                   THEN [a EXCEPT !.http_health_check = a.health_check] ELSE a
    IN  IF GivenName(a.backup_pool)
        THEN [checked EXCEPT !.backup_pool_region = a.region] ELSE checked

\* The ComputeTargetPoolsInsertRequest of lines 161-172.
InsertRequest(a) ==
    [targetPool |->
        [backupPool |-> IF GivenName(a.backup_pool)
                        THEN <<SelfLink("targetPools", a.backup_pool_region, a.backup_pool)>>
                        ELSE <<>>,
         description |-> a.description,
         failoverRatio |-> a.failover_ratio,
         healthChecks |-> IF GivenName(a.http_health_check)
                          THEN <<SelfLink("httpHealthChecks", "", a.http_health_check)>>
                          ELSE <<>>,
         name |-> a.name,
         sessionAffinity |-> a.session_affinity],
     region |-> a.region,
     project |-> "my-project"]

\* No Fingerprint runs.
NoFingerprint ==
    /\ params = [appinfo |-> NoAppinfo, custom |-> FALSE, deploy |-> FALSE]
    /\ env = <<>>
    /\ bundler_available = FALSE
    /\ gems = <<>>
    /\ packages = <<>>
    /\ Unfinished

\* Create.CreateRequests(args)
CreateRequests ==
    /\ pc = "create_requests"
    /\ IF FailoverError(args) # NoError
       THEN /\ error' = FailoverError(args)
            /\ outcome' = "raised"
            /\ UNCHANGED <<args, request, log>>
       ELSE /\ args' = ResolvedPoolArgs(args)
            /\ log' = IF GivenName(args.health_check)
                      THEN Append(log, [channel |-> "warn",
                                        text |-> "The --health-check flag is deprecated. Use equivalent --http-health-check=%s flag.",
                                        arg |-> <<args.health_check>>])
                      ELSE log
            /\ request' = <<InsertRequest(ResolvedPoolArgs(args))>>
            /\ outcome' = "returned"
            /\ UNCHANGED error
    /\ pc' = "done"
    /\ UNCHANGED <<params, env, ran, prompts, locals, configurator, dockerfile,
                   rendering, calls, scopes, expanded_scopes>>

\* CreateRequests on every combination of the sample arguments.
InitTargetPools ==
    /\ pc = "create_requests"
    /\ NoFingerprint
    /\ args \in SamplePoolArgs
    /\ request = <<>>
    /\ calls = <<>>
    /\ scopes = <<>>
    /\ expanded_scopes = <<>>

SpecTargetPools == InitTargetPools /\ [][CreateRequests]_vars

\* C24: CreateRequests raises a ToolException iff exactly one of
\* --backup-pool and --failover-ratio is provided or the provided ratio is
\* outside [0, 1]; a ratio in [0, 1], bounds included, that comes with a
\* backup pool is accepted and is the failoverRatio of the request.
C24_FailoverAsHelpPromises ==
    pc = "done"
       => LET pool == args.backup_pool # Missing
              ratio == args.failover_ratio
              inside == ratio.hundredths >= 0 /\ ratio.hundredths <= 100
          IN  /\ outcome = "raised"
                    <=> (pool /\ ~ratio.set) \/ (ratio.set /\ ~pool) \/ (ratio.set /\ ~inside)
              /\ outcome = "raised" => error.class = "ToolException"
              /\ pool /\ ratio.set /\ inside
                    => /\ outcome = "returned"
                       /\ request[1].targetPool.failoverRatio = ratio


\* ---------------------------------------------------------------------
\* gcloud container node-pools delete (surface/container/node_pools/delete.py)

\* The arguments that the parser of Delete.Args hands to Run. The parser
\* always sets wait (store_true with default True); Run reads the attribute.
SampleDeleteArgs ==
    [name : {"node-pool-1", "node-pool-2"}, cluster : {Missing, "sample-cluster"},
     timeout : {1800, 60}, wait : BOOLEAN]

\* How a call of the API adapter ends: it returns, raises
\* apitools_exceptions.HttpError, or raises another exception.
AdapterResults == {"ok", "HttpError", "Error"}

\* How console_io.PromptContinue(throw_if_unattended=True, cancel_on_no=True)
\* ends: it returns, or raises because the user said no or cannot be asked.
PromptResults == {"accepted", "OperationCancelledError", "UnattendedPromptError"}

Call(name, result) == [name |-> name, result |-> result]

\* The except clause of Run passing every exception on as it is.
ReraisedUnchanged(exception) == exception

\* The except clause of Run: an HttpError leaves as an HttpException, any
\* other exception as it is.
Reraised(exception) ==
    IF exception = "HttpError" THEN "HttpException" ELSE exception

\* An exception leaves Run.
RunRaises(class) ==
    /\ error' = [class |-> class, message |-> ""]
    /\ outcome' = "raised"
    /\ pc' = "done"

\* Lines 80-91: the node pool is parsed and the user is asked to confirm.
PromptContinue ==
    /\ pc = "run"
    /\ \E result \in PromptResults :
          /\ calls' = calls \o <<Call("ParseNodePool", "ok"), Call("PromptContinue", result)>>
          /\ IF result = "accepted"
             THEN pc' = "get" /\ UNCHANGED <<outcome, error>>
             ELSE RunRaises(result)
    /\ UNCHANGED <<params, env, ran, prompts, log, locals, configurator, dockerfile,
                   rendering, args, request, scopes, expanded_scopes>>

\* Line 95: adapter.GetNodePool(pool_ref)
GetNodePool ==
    /\ pc = "get"
    /\ \E result \in AdapterResults :
          /\ calls' = Append(calls, Call("GetNodePool", result))
          /\ IF result = "ok"
             THEN pc' = "delete" /\ UNCHANGED <<outcome, error>>
             ELSE RunRaises(Reraised(result))
    /\ UNCHANGED <<params, env, ran, prompts, log, locals, configurator, dockerfile,
                   rendering, args, request, scopes, expanded_scopes>>

\* Lines 97-98: op_ref = adapter.DeleteNodePool(pool_ref); if args.wait
DeleteNodePool ==
    /\ pc = "delete"
    /\ \E result \in AdapterResults :
          /\ calls' = Append(calls, Call("DeleteNodePool", result))
          /\ IF result = "ok"
             THEN /\ pc' = IF args.wait THEN "wait" ELSE "log"
                  /\ UNCHANGED <<outcome, error>>
             ELSE RunRaises(Reraised(result))
    /\ UNCHANGED <<params, env, ran, prompts, log, locals, configurator, dockerfile,
                   rendering, args, request, scopes, expanded_scopes>>

\* Lines 99-102: adapter.WaitForOperation(op_ref, ..., timeout_s=args.timeout)
WaitForOperation ==
    /\ pc = "wait"
    /\ \E result \in AdapterResults :
          /\ calls' = Append(calls, Call("WaitForOperation", result))
          /\ IF result = "ok"
             THEN pc' = "log" /\ UNCHANGED <<outcome, error>>
             ELSE RunRaises(Reraised(result))
    /\ UNCHANGED <<params, env, ran, prompts, log, locals, configurator, dockerfile,
                   rendering, args, request, scopes, expanded_scopes>>

\* Lines 106-107: log.DeletedResource(pool_ref); return op_ref
DeletedResource ==
    /\ pc = "log"
    /\ log' = Append(log, [channel |-> "DeletedResource", text |-> "Deleted",
                           arg |-> <<args.name>>])
    /\ outcome' = "returned"
    /\ pc' = "done"
    /\ UNCHANGED <<params, env, ran, prompts, locals, error, configurator, dockerfile,
                   rendering, args, request, calls, scopes, expanded_scopes>>

\* Run on every combination of the sample arguments.
InitNodePools ==
    /\ pc = "run"
    /\ NoFingerprint
    /\ args \in SampleDeleteArgs
    /\ request = <<>>
    /\ calls = <<>>
    /\ scopes = <<>>
    /\ expanded_scopes = <<>>

SpecNodePools ==
    InitNodePools
    /\ [][PromptContinue \/ GetNodePool \/ DeleteNodePool \/ WaitForOperation
          \/ DeletedResource]_vars

\* The positions of the calls of a name, and of those that returned.
Called(name) == {i \in DOMAIN calls : calls[i].name = name}

Returned(name) == {i \in Called(name) : calls[i].result \in {"ok", "accepted"}}

\* C29: in Run, DeleteNodePool is called only after PromptContinue was
\* accepted and GetNodePool returned; WaitForOperation only after
\* DeleteNodePool returned and only with args.wait; the deletion is logged
\* and the operation returned only if no call raised; an HttpError of
\* GetNodePool, DeleteNodePool or WaitForOperation leaves Run as an
\* HttpException, with no deletion logged and, when GetNodePool raised it,
\* no delete request made.
C29_DeleteOrdered ==
    /\ \A i \in Called("DeleteNodePool") :
          /\ \E j \in Returned("PromptContinue") : j < i
          /\ \E j \in Returned("GetNodePool") : j < i
    /\ \A i \in Called("WaitForOperation") :
          /\ args.wait
          /\ \E j \in Returned("DeleteNodePool") : j < i
    /\ log # <<>> \/ outcome = "returned"
          => /\ \A i \in DOMAIN calls : calls[i].result \in {"ok", "accepted"}
             /\ Returned("DeleteNodePool") # {}
             /\ log # <<>> /\ outcome = "returned" /\ error = NoError
    /\ \A i \in DOMAIN calls :
          calls[i].result = "HttpError"
             => /\ outcome = "raised" /\ error.class = "HttpException"
                /\ log = <<>>
                /\ i = Len(calls)
                /\ calls[i].name = "GetNodePool" => Called("DeleteNodePool") = {}

\* Run was accepted, found the node pool and deleted it, and the wait for
\* the operation raised an HttpError: an HttpException, nothing logged.
C29_Witness ==
    /\ [i \in DOMAIN calls |-> calls[i].name]
          = <<"ParseNodePool", "PromptContinue", "GetNodePool", "DeleteNodePool",
              "WaitForOperation">>
    /\ calls[5].result = "HttpError"
    /\ error.class = "HttpException"
    /\ log = <<>>


\* ---------------------------------------------------------------------
\* ExpandScopeAliases (googlecloudsdk/api_lib/dataproc/compute_helpers.py)

\* The longest list of scopes that is expanded.
MaxScopes == 3

AuthScope(name) ==
    <<"h", "t", "t", "p", "s", ":", "/", "/", "w", "w", "w", ".", "g", "o", "o", "g",
      "l", "e", "a", "p", "i", "s", ".", "c", "o", "m", "/", "a", "u", "t", "h", "/">>
    \o name

ScopeReadOnly ==
    AuthScope(<<"d", "e", "v", "s", "t", "o", "r", "a", "g", "e", ".",
                "r", "e", "a", "d", "_", "o", "n", "l", "y">>)

ScopeLogging == AuthScope(<<"l", "o", "g", "g", "i", "n", "g", ".", "w", "r", "i", "t", "e">>)

ScopeBigquery == AuthScope(<<"b", "i", "g", "q", "u", "e", "r", "y">>)

AliasStorageRo == <<"s", "t", "o", "r", "a", "g", "e", "-", "r", "o">>

AliasDefault == <<"d", "e", "f", "a", "u", "l", "t">>

\* compute_constants.SCOPES: alias -> the list of its scopes. Two aliases
\* of it, one with two scopes, and a scope that both hold.
SCOPE_ALIASES ==
    (AliasStorageRo :> <<ScopeReadOnly>>)
    @@ (AliasDefault :> <<ScopeLogging, ScopeReadOnly>>)

\* What a user passes for one scope: an alias, a scope URI, another name.
SampleScopes ==
    {AliasStorageRo, AliasDefault, ScopeBigquery, <<"m", "y", "-", "s", "c", "o", "p", "e">>}

\* The argument of ExpandScopeAliases: None or a list.
NoScopes == [none |-> TRUE, list |-> <<>>]

ScopeList(list) == [none |-> FALSE, list |-> list]

SampleScopeLists ==
    {NoScopes}
    \cup {ScopeList(l) : l \in UNION {[1..n -> SampleScopes] : n \in 0..MaxScopes}}

RECURSIVE ExpandedScopes(_)
\* The loop of lines 37-43: expanded_scopes in the order of the input.
ExpandedScopes(list) ==
    IF list = <<>> THEN <<>>
    ELSE (IF Head(list) \in DOMAIN SCOPE_ALIASES THEN SCOPE_ALIASES[Head(list)]
          ELSE <<Head(list)>>)
         \o ExpandedScopes(Tail(list))

RECURSIVE SortedScopes(_)
\* sorted(list): ascending in str order, every occurrence kept.
SortedScopes(list) ==
    IF list = <<>> THEN <<>>
    ELSE LET m == CHOOSE i \in DOMAIN list :
                      \A j \in DOMAIN list : ~StrLess(list[j], list[i])
         IN  <<list[m]>>
             \o SortedScopes(SubSeq(list, 1, m - 1) \o SubSeq(list, m + 1, Len(list)))

\* ExpandScopeAliases returning the list as the loop built it.
ExpandScopeAliasesUnsorted(s) ==
    ExpandedScopes(IF s.none \/ s.list = <<>> THEN <<>> ELSE s.list)

\* ExpandScopeAliases(scopes)
ExpandScopeAliases(s) ==
    SortedScopes(ExpandedScopes(IF s.none \/ s.list = <<>> THEN <<>> ELSE s.list))

\* A call of ExpandScopeAliases with the list of the caller.
ExpandScopes ==
    /\ pc = "expand"
    /\ expanded_scopes' = ExpandScopeAliases(scopes)
    /\ outcome' = "returned"
    /\ pc' = "done"
    /\ UNCHANGED <<params, env, ran, prompts, log, locals, error, configurator,
                   dockerfile, rendering, args, request, calls, scopes>>

\* ExpandScopeAliases on None and on every list of sample scopes up to
\* MaxScopes; args keeps what the caller passed.
InitScopes ==
    /\ pc = "expand"
    /\ NoFingerprint
    /\ scopes \in SampleScopeLists
    /\ args = [scopes |-> scopes]
    /\ request = <<>>
    /\ calls = <<>>
    /\ expanded_scopes = <<>>

SpecScopes == InitScopes /\ [][ExpandScopes]_vars

\* What one scope stands for: the scopes of the alias, or itself.
Expansion(scope) ==
    IF scope \in {AliasStorageRo, AliasDefault} THEN SCOPE_ALIASES[scope] ELSE <<scope>>

RECURSIVE Occurrences(_, _)
\* How often a scope occurs in the expansions of the scopes of a list.
Occurrences(x, list) ==
    IF list = <<>> THEN 0
    ELSE Cardinality({i \in DOMAIN Expansion(Head(list)) : Expansion(Head(list))[i] = x})
         + Occurrences(x, Tail(list))

\* C30: ExpandScopeAliases returns a list in ascending order that holds, for
\* each scope of the input, the scopes of its alias or the scope itself, as
\* often as they come (nothing is deduplicated); None and the empty list
\* give the empty list; the list of the caller is left as it was; and the
\* result is the same for every order of the input.
C30_ExpandScopeAliases ==
    pc = "done"
       => LET input == IF scopes.none THEN <<>> ELSE scopes.list
              out == expanded_scopes
              all == Range(out) \cup UNION {Range(Expansion(input[i])) : i \in DOMAIN input}
          IN  /\ \A i, j \in DOMAIN out : i < j => ~StrLess(out[j], out[i])
              /\ \A x \in all :
                    Cardinality({i \in DOMAIN out : out[i] = x}) = Occurrences(x, input)
              /\ input = <<>> => out = <<>>
              /\ scopes = args.scopes
              /\ \A p \in Permutations(DOMAIN input) :
                    ExpandScopeAliases(ScopeList([i \in DOMAIN input |-> input[p[i]]])) = out

\* The aliases default and storage-ro were expanded: the scope that both
\* hold comes twice, and the scopes are in order.
C30_Witness ==
    /\ pc = "done"
    /\ scopes = ScopeList(<<AliasDefault, AliasStorageRo>>)
    /\ expanded_scopes = <<ScopeReadOnly, ScopeReadOnly, ScopeLogging>>

====
